---- MODULE Spec2Model ----
(***************************************************************************)
(* A model of the argument-binding engine of the sugar library:            *)
(*   - the token classifier   (sugar/_parser.py, separate_argv),           *)
(*   - spec registration      (BaseParser._update_name_to_group),          *)
(*   - the binding resolver   (ArgumentParser.parse_vals).                 *)
(*                                                                         *)
(* Representation.  A Python str is a sequence of one-character strings,   *)
(* so that slicing, str.replace, str.isidentifier and str.isalpha are      *)
(* computed character by character.  A Python value is a record            *)
(* [t |-> <type tag>, v |-> <payload sequence>].  A dict is a sequence of  *)
(* entries in insertion order.  None (for the optional arguments dest and  *)
(* names) is the empty sequence: `if names:` treats None and () alike, and *)
(* the empty string is never drawn as a dest.                              *)
(***************************************************************************)
EXTENDS Integers, Sequences, FiniteSets, TLC

VARIABLES
    name_to_dest,     \* BaseParser._name_to_dest   : name -> dest
    dest_to_group,    \* BaseParser._dest_to_group  : dest -> group
    magic_specs,      \* BaseParser._magic_specs    : dict dest -> MagicSpec
    pos_only_specs,   \* ArgumentParser._pos_only_specs  (dict, insertion order)
    pos_or_kw_specs,  \* ArgumentParser._pos_or_kw_specs (dict, insertion order)
    kw_only_specs,    \* ArgumentParser._kw_only_specs   (dict, insertion order)
    var_pos_spec,     \* ArgumentParser._var_pos_spec    (Pair: at most one item)
    var_kw_spec,      \* ArgumentParser._var_kw_spec     (Pair: at most one item)
    last,             \* the most recent call: its operation, arguments and outcome
    ACTIONS_table,          \* sugar._action.ACTIONS : canonical type -> Action instance
    made,             \* the number of Action instances created so far
    resolving         \* the call of resolve_type in progress: frames and ctx

vars == << name_to_dest, dest_to_group, magic_specs, pos_only_specs,
           pos_or_kw_specs, kw_only_specs, var_pos_spec, var_kw_spec, last,
           ACTIONS_table, made, resolving >>

module_vars == << ACTIONS_table, made, resolving >>

parser_vars == << name_to_dest, dest_to_group, magic_specs, pos_only_specs,
                  pos_or_kw_specs, kw_only_specs, var_pos_spec, var_kw_spec >>

-----------------------------------------------------------------------------
(* Bounds of the model *)

\* longest argv handed to separate_argv (classifier specification)
MaxArgv == 3

\* longest input of one bind, counted in argv tokens (one per positional
\* value, one per flag, one per flag value)
MaxInput == 3

\* most registration calls made on one parser
MaxSpecs == 3

-----------------------------------------------------------------------------
(* Strings *)

None == << >>

Lower == {"a","b","c","d","e","f","g","h","i","j","k","l","m",
          "n","o","p","q","r","s","t","u","v","w","x","y","z"}
Upper == {"A","B","C","D","E","F","G","H","I","J","K","L","M",
          "N","O","P","Q","R","S","T","U","V","W","X","Y","Z"}
Digits == {"0","1","2","3","4","5","6","7","8","9"}
Alpha == Lower \cup Upper

DigitVal(c) ==
    CASE c = "0" -> 0 [] c = "1" -> 1 [] c = "2" -> 2 [] c = "3" -> 3
      [] c = "4" -> 4 [] c = "5" -> 5 [] c = "6" -> 6 [] c = "7" -> 7
      [] c = "8" -> 8 [] c = "9" -> 9

\* s[:n]
Prefix(s, n) == SubSeq(s, 1, IF n < Len(s) THEN n ELSE Len(s))

\* s[n:]
Suffix(s, n) == SubSeq(s, n + 1, Len(s))

\* s.replace(a, b) for one-character a and b
Replace(s, a, b) == [i \in 1..Len(s) |-> IF s[i] = a THEN b ELSE s[i]]

\* str.isidentifier (ASCII): a letter or underscore, then letters, digits, underscores
isidentifier(s) ==
    /\ Len(s) > 0
    /\ s[1] \in Alpha \cup {"_"}
    /\ \A i \in 1..Len(s) : s[i] \in Alpha \cup Digits \cup {"_"}

\* str.isalpha (ASCII): non-empty, letters only
isalpha(s) == Len(s) > 0 /\ \A i \in 1..Len(s) : s[i] \in Alpha

RECURSIVE Concat(_)
\* the concatenation of a sequence of sequences
Concat(ss) == IF ss = << >> THEN << >> ELSE Head(ss) \o Concat(Tail(ss))

\* the elements of a sequence
Range(s) == {s[i] : i \in 1..Len(s)}

\* the sequences over S of length at most n
SeqUpTo(S, n) == UNION {[1..m -> S] : m \in 0..n}

-----------------------------------------------------------------------------
(* Python values, exceptions *)

MISSING == [t |-> "MISSING", v |-> << >>]
PyInt(n) == [t |-> "int", v |-> <<n>>]
PyStr(s) == [t |-> "str", v |-> s]
PyBool(b) == [t |-> "bool", v |-> <<b>>]
PyNone == [t |-> "NoneType", v |-> << >>]
PyList(xs) == [t |-> "list", v |-> xs]
PyTuple(xs) == [t |-> "tuple", v |-> xs]
PyDict(xs) == [t |-> "dict", v |-> xs]

\* xs without the later occurrences of equal elements
RECURSIVE Dedup(_)
Dedup(xs) ==
    IF xs = << >> THEN << >>
    ELSE LET front == Dedup(SubSeq(xs, 1, Len(xs) - 1))
             x == xs[Len(xs)]
         IN  IF \E i \in 1..Len(front) : front[i] = x THEN front ELSE Append(front, x)

\* a set, held as the sequence of its distinct elements
PySet(xs) == [t |-> "set", v |-> Dedup(xs)]

\* hash(x) is defined: lists, sets and dicts are not hashable, a tuple is
\* when its elements (scalars in this model) are
Hashable(x) == x.t \notin {"list", "set", "dict"}

ValueError == [t |-> "ValueError", v |-> << >>]
TypeError == [t |-> "TypeError", v |-> << >>]
SugarError(msg) == [t |-> "SugarError", v |-> msg]
IsRaise(x) == x.t \in {"ValueError", "TypeError", "SugarError"}

-----------------------------------------------------------------------------
(* sugar/_eval.py: the single-type converters, on the texts the model draws: *)
(* decimal integer literals and bare identifiers.                            *)

RECURSIVE DecimalValue(_)
DecimalValue(s) ==
    IF s = << >> THEN 0
    ELSE 10 * DecimalValue(SubSeq(s, 1, Len(s) - 1)) + DigitVal(s[Len(s)])

\* a decimal integer literal: digits, with no leading zero unless all are zeros
IsDecimal(s) ==
    /\ Len(s) > 0
    /\ \A i \in 1..Len(s) : s[i] \in Digits
    /\ (s[1] = "0" => \A i \in 1..Len(s) : s[i] = "0")

\* int_: int(x, 0)
int_(x) ==
    IF IsDecimal(x) THEN PyInt(DecimalValue(x))
    ELSE IF Len(x) > 1 /\ x[1] = "-" /\ IsDecimal(Tail(x))
         THEN PyInt(0 - DecimalValue(Tail(x)))
    ELSE ValueError

\* convert on a Constant or Name node: a number, True, False, None, or the
\* identifier as a string
any_scalar(x) ==
    IF IsDecimal(x) THEN PyInt(DecimalValue(x))
    ELSE IF x = <<"T","r","u","e">> THEN PyBool(TRUE)
    ELSE IF x = <<"F","a","l","s","e">> THEN PyBool(FALSE)
    ELSE IF x = <<"N","o","n","e">> THEN PyNone
    ELSE PyStr(x)

RECURSIVE SplitCommas(_, _, _)
\* the items of a display between commas, a trailing comma allowed
SplitCommas(x, item, items) ==
    IF x = << >> THEN (IF item = << >> THEN items ELSE Append(items, item))
    ELSE IF x[1] = "," THEN SplitCommas(Tail(x), << >>, Append(items, item))
    ELSE SplitCommas(Tail(x), Append(item, x[1]), items)

\* the values of the items of a display of scalars
Elts(x) == LET items == SplitCommas(x, << >>, << >>)
           IN  [i \in 1..Len(items) |-> any_scalar(items[i])]

\* any_: the literal evaluator, returning the raw text on a SyntaxError; a
\* list display [..], a set display {..} ({} is the empty dict), a tuple
\* written with commas, else a scalar
any_(x) ==
    IF Len(x) >= 2 /\ x[1] = "[" /\ x[Len(x)] = "]"
    THEN PyList(Elts(SubSeq(x, 2, Len(x) - 1)))
    ELSE IF Len(x) >= 2 /\ x[1] = "{" /\ x[Len(x)] = "}"
    THEN IF Len(x) = 2 THEN PyDict(<< >>) ELSE PySet(Elts(SubSeq(x, 2, Len(x) - 1)))
    ELSE IF \E i \in 1..Len(x) : x[i] = ","
    THEN PyTuple(Elts(x))
    ELSE any_scalar(x)

\* str_: unwraps a quoted string literal, else the raw text
str_(x) == PyStr(x)

\* str.lower (ASCII)
LowerOf(c) ==
    LET upper == <<"A","B","C","D","E","F","G","H","I","J","K","L","M",
                   "N","O","P","Q","R","S","T","U","V","W","X","Y","Z">>
        lower == <<"a","b","c","d","e","f","g","h","i","j","k","l","m",
                   "n","o","p","q","r","s","t","u","v","w","x","y","z">>
    IN  IF \E i \in 1..Len(upper) : upper[i] = c
        THEN lower[CHOOSE i \in 1..Len(upper) : upper[i] = c]
        ELSE c
lower(s) == [i \in 1..Len(s) |-> LowerOf(s[i])]

TRUE_VALS == {<<"t","r","u","e">>, <<"t">>}
FALSE_VALS == {<<"f","a","l","s","e">>, <<"f">>}
NONE_VALS == {<<"n","o","n","e">>}

\* bool_
bool_(x) ==
    IF lower(x) \in TRUE_VALS THEN PyBool(TRUE)
    ELSE IF lower(x) \in FALSE_VALS THEN PyBool(FALSE)
    ELSE ValueError

\* none: the test is made against TRUE_VALS
none(x) == IF lower(x) \in TRUE_VALS THEN PyNone ELSE ValueError

\* the call func(value) for the conversion functions above
ApplyFunc(func, value) ==
    CASE func = "int_" -> int_(value)
      [] func = "any_" -> any_(value)
      [] func = "str_" -> str_(value)

-----------------------------------------------------------------------------
(* sugar/_action.py: tokens and actions *)

PositionalToken(dest, value) == [dest |-> dest, value |-> value]
KeywordToken(dest, value, count) == [dest |-> dest, value |-> value, count |-> count]

Event(func) ==
    [kind |-> "Event", func |-> func, elem |-> "", coll |-> "", elems |-> << >>]
Converter(func) ==
    [kind |-> "Converter", func |-> func, elem |-> "", coll |-> "", elems |-> << >>]
Build(coll, elem, func) ==
    [kind |-> "Build", func |-> func, elem |-> elem, coll |-> coll, elems |-> << >>]
\* Record: elem is a sequence of functions, held in elems
Record(coll, elem, func) ==
    [kind |-> "Record", func |-> func, elem |-> "", coll |-> coll, elems |-> elem]

DEFAULT_ACTION == Converter("any_")

error_expected_n(dest, exp, n_vals) == <<"expected n", dest, <<exp, n_vals>> >>
error_invalid_value(dest, val) == <<"invalid value", dest, val>>

\* the whole-value function of a Build for a list type (make_type): the
\* literal evaluator followed by the instance check
list_(x) == LET y == any_(x) IN IF y.t = "list" THEN y ELSE ValueError

\* the whole-value functions of a set type and of a tuple type (make_type)
set_(x) == LET y == any_(x) IN IF y.t = "set" THEN y ELSE ValueError
tuple_(x) == LET y == any_(x) IN IF y.t = "tuple" THEN y ELSE ValueError

\* func(value) for every conversion function an action of the model holds
CallFunc(func, value) ==
    CASE func = "list_" -> list_(value)
      [] func = "set_" -> set_(value)
      [] func = "tuple_" -> tuple_(value)
      [] OTHER -> ApplyFunc(func, value)

\* coll(results): list and tuple take any elements, set raises TypeError on
\* an element that is not hashable
CallColl(coll, rs) ==
    CASE coll = "list" -> PyList(rs)
      [] coll = "tuple" -> PyTuple(rs)
      [] coll = "set" -> IF \A i \in 1..Len(rs) : Hashable(rs[i])
                         THEN PySet(rs) ELSE TypeError

\* Converter._call: any exception of func becomes a SugarError
Converter_call(func, value, token) ==
    LET r == CallFunc(func, value)
    IN  IF IsRaise(r) THEN SugarError(error_invalid_value(token.dest, value)) ELSE r

\* Action.call_positional
call_positional(action, token) ==
    IF action.kind = "Event"
    THEN SugarError(<<"can only be called with keyword arguments">>)
    ELSE Converter_call(action.func, token.value, token)

\* call_keyword of a Converter that takes the first value of any number
Converter_call_keyword_first(action, token) ==
    IF Len(token.value) = 0
    THEN SugarError(error_expected_n(token.dest, 1, Len(token.value)))
    ELSE Converter_call(action.func, token.value[1], token)

\* Converter.call_keyword: exactly one value
Converter_call_keyword(action, token) ==
    IF Len(token.value) # 1
    THEN SugarError(error_expected_n(token.dest, 1, Len(token.value)))
    ELSE Converter_call(action.func, token.value[1], token)

\* call_keyword of a Build that leaves out the values that fail to convert
Build_call_keyword_skip(action, token) ==
    LET rs == [i \in 1..Len(token.value) |->
                  Converter_call(action.elem, token.value[i], token)]
    IN  CallColl(action.coll, SelectSeq(rs, LAMBDA r : ~IsRaise(r)))

\* Build.call_keyword: every value through elem, the results through coll;
\* the first value that fails to convert raises
Build_call_keyword(action, token) ==
    LET rs == [i \in 1..Len(token.value) |->
                  Converter_call(action.elem, token.value[i], token)]
        bad == {i \in 1..Len(rs) : IsRaise(rs[i])}
    IN  IF bad # {} THEN rs[CHOOSE i \in bad : \A j \in bad : i <= j]
        ELSE CallColl(action.coll, rs)

\* the smaller of two numbers
Min(a, b) == IF a <= b THEN a ELSE b

\* call_keyword of a Record whose zip is strict
Record_call_keyword_strict(action, token) ==
    IF Len(action.elems) # Len(token.value)
    THEN SugarError(error_expected_n(token.dest, Len(action.elems), Len(token.value)))
    ELSE LET rs == [i \in 1..Len(token.value) |->
                       Converter_call(action.elems[i], token.value[i], token)]
             bad == {i \in 1..Len(rs) : IsRaise(rs[i])}
         IN  IF bad # {} THEN rs[CHOOSE i \in bad : \A j \in bad : i <= j]
             ELSE CallColl(action.coll, rs)

\* Record.call_keyword: zip(elem, values) pairs converter i with value i and
\* stops at the shorter of the two; the results go through coll
Record_call_keyword(action, token) ==
    LET rs == [i \in 1..Min(Len(action.elems), Len(token.value)) |->
                  Converter_call(action.elems[i], token.value[i], token)]
        bad == {i \in 1..Len(rs) : IsRaise(rs[i])}
    IN  IF bad # {} THEN rs[CHOOSE i \in bad : \A j \in bad : i <= j]
        ELSE CallColl(action.coll, rs)

\* Action.call_keyword (the callback of an Event is counted by its caller)
call_keyword(action, token) ==
    CASE action.kind = "Event" -> PyNone
      [] action.kind = "Build" -> Build_call_keyword(action, token)
      [] action.kind = "Record" -> Record_call_keyword(action, token)
      [] OTHER -> Converter_call_keyword(action, token)

\* the applications func(value) one call of an action makes, in order, up
\* to and including the first that raises
ConversionsUpTo(funcs, values) ==
    LET n == Min(Len(funcs), Len(values))
        bad == {i \in 1..n : IsRaise(CallFunc(funcs[i], values[i]))}
        m == IF bad = {} THEN n ELSE CHOOSE i \in bad : \A j \in bad : i <= j
    IN  [i \in 1..m |-> [func |-> funcs[i], value |-> values[i]]]

conversions(action, mode, token) ==
    IF action.kind = "Event" THEN << >>
    ELSE IF mode = "positional" THEN ConversionsUpTo(<<action.func>>, <<token.value>>)
    ELSE IF action.kind = "Build"
    THEN ConversionsUpTo([i \in 1..Len(token.value) |-> action.elem], token.value)
    ELSE IF action.kind = "Record" THEN ConversionsUpTo(action.elems, token.value)
    ELSE IF Len(token.value) # 1 THEN << >>
    ELSE ConversionsUpTo(<<action.func>>, token.value)

-----------------------------------------------------------------------------
(* sugar/_parser.py: the token classifier *)

LONG_FLAG == "LONG"
SHORT_FLAG == "SHORT"
NON_FLAG == "NON"

\* parse_flag_and_value with error_on_bad_long off: a bad long flag is a value
parse_flag_and_value_tolerant(arg) ==
    IF Prefix(arg, 2) = <<"-", "-">>
    THEN LET flag == Replace(Suffix(arg, 2), "-", "_")
         IN  IF isidentifier(flag) THEN [e |-> LONG_FLAG, v |-> flag]
             ELSE [e |-> NON_FLAG, v |-> arg]
    ELSE IF Prefix(arg, 1) = <<"-">>
    THEN LET flag == Replace(Suffix(arg, 1), "-", "_")
         IN  IF isalpha(Replace(flag, "_", "A")) THEN [e |-> SHORT_FLAG, v |-> flag]
             ELSE [e |-> NON_FLAG, v |-> arg]
    ELSE [e |-> NON_FLAG, v |-> arg]

\* parse_flag_and_value with its default keyword arguments
\* (error_on_bad_long = True, error_on_bad_short = False)
parse_flag_and_value(arg) ==
    IF Prefix(arg, 2) = <<"-", "-">>
    THEN LET flag == Replace(Suffix(arg, 2), "-", "_")
         IN  IF isidentifier(flag) THEN [e |-> LONG_FLAG, v |-> flag]
             ELSE [e |-> "raise", v |-> arg]
    ELSE IF Prefix(arg, 1) = <<"-">>
    THEN LET flag == Replace(Suffix(arg, 1), "-", "_")
         IN  IF isalpha(Replace(flag, "_", "A")) THEN [e |-> SHORT_FLAG, v |-> flag]
             ELSE [e |-> NON_FLAG, v |-> arg]
    ELSE [e |-> NON_FLAG, v |-> arg]

\* GroupsOf with the values handed to the first letter of a short cluster
GroupsOf_first_letter(ev, values) ==
    IF ev.e = SHORT_FLAG
    THEN [k \in 1..Len(ev.v) |->
             IF k = 1 THEN << <<ev.v[k]>>, values >>
                      ELSE << <<ev.v[k]>>, << >> >>]
    ELSE << <<ev.v, values>> >>

\* the groups one flag token opens: every letter but the last of a short
\* cluster with no values, then the flag itself with the values vs[i+1:j]
GroupsOf(ev, values) ==
    IF ev.e = SHORT_FLAG
    THEN [k \in 1..Len(ev.v) |->
             IF k < Len(ev.v) THEN << <<ev.v[k]>>, << >> >>
                              ELSE << <<ev.v[k]>>, values >>]
    ELSE << <<ev.v, values>> >>

\* separate_argv
separate_argv(argv) ==
    LET flag_enum_and_vals == [i \in 1..Len(argv) |-> parse_flag_and_value(argv[i])]
        n == Len(argv)
        bad == {i \in 1..n : flag_enum_and_vals[i].e = "raise"}
        vs == [i \in 1..n |-> flag_enum_and_vals[i].v]
        iflags == SelectSeq([i \in 1..n |-> i],
                            LAMBDA i : flag_enum_and_vals[i].e # NON_FLAG)
                  \o <<n + 1>>
    IN  IF n = 0 THEN [outcome |-> "return", vals |-> << >>, named_vals |-> << >>]
        ELSE IF bad # {}
        THEN [outcome |-> "SugarError", vals |-> << >>, named_vals |-> << >>]
        ELSE [outcome |-> "return",
              vals |-> SubSeq(vs, 1, iflags[1] - 1),
              named_vals |-> Concat([p \in 1..(Len(iflags) - 1) |->
                    GroupsOf(flag_enum_and_vals[iflags[p]],
                             SubSeq(vs, iflags[p] + 1, iflags[p + 1] - 1))])]

-----------------------------------------------------------------------------
(* sugar/_parser.py: groups, registration *)

POSITIONAL_ONLY == "Positional-only"
POSITIONAL_OR_KEYWORD == "Positional or keyword"
VAR_POSITIONAL == "Variadic positional"
KEYWORD_ONLY == "Keyword-only"
VAR_KEYWORD == "Variadic keyword"
MAGIC == "Magic"

\* the key None of group_tokens: the bucket of the unknown tokens
NoGroup == "None"

help == <<"h", "e", "l", "p">>
DEFAULT_HELP_FLAGS == << help, <<"h">> >>

\* ArgumentParser._groups
ArgumentParser_groups == {POSITIONAL_ONLY, POSITIONAL_OR_KEYWORD, KEYWORD_ONLY, MAGIC}

\* ArgumentSpec / PositionalSpec, stored with the key of its dict
ArgumentSpec(dest, names, action, default) ==
    [dest |-> dest, names |-> names, action |-> action, default |-> default]

\* MagicSpec, stored with the key of its dict
MagicSpec(dest, names, action) == [dest |-> dest, names |-> names, action |-> action]

\* m with m[k] = v written for every k of ks
DictUpdate(m, ks, v) == [k \in DOMAIN m \cup ks |-> IF k \in ks THEN v ELSE m[k]]

\* update_name_to_dest: the outcome, the (names, dest) it returns, and the
\* table as it leaves it
update_name_to_dest(names, dest, n2d) ==
    LET dest1 == IF names # None /\ dest = None THEN names[1] ELSE dest
        names1 == IF names # None THEN names ELSE <<dest>>
    IN  IF names = None /\ dest = None
        THEN [outcome |-> "ValueError", names |-> names, dest |-> dest, name_to_dest |-> n2d]
        ELSE IF \E i \in 1..Len(names1) : ~isidentifier(names1[i])
        THEN [outcome |-> "ValueError", names |-> names1, dest |-> dest1, name_to_dest |-> n2d]
        ELSE IF \E i \in 1..Len(names1) : names1[i] \in DOMAIN n2d
        THEN [outcome |-> "ValueError", names |-> names1, dest |-> dest1, name_to_dest |-> n2d]
        ELSE [outcome |-> "return", names |-> names1, dest |-> dest1,
              name_to_dest |-> DictUpdate(n2d, Range(names1), dest1)]

\* _update_name_to_group without the test that the dest is already used
update_name_to_group_reuse(names, dest, group, n2d, d2g) ==
    LET u == update_name_to_dest(names, dest, n2d)
    IN  IF u.outcome # "return"
        THEN [outcome |-> u.outcome, names |-> u.names, dest |-> u.dest,
              name_to_dest |-> u.name_to_dest, dest_to_group |-> d2g]
        ELSE IF ~isidentifier(u.dest)
        THEN [outcome |-> "ValueError", names |-> u.names, dest |-> u.dest,
              name_to_dest |-> u.name_to_dest, dest_to_group |-> d2g]
        ELSE [outcome |-> "return", names |-> u.names, dest |-> u.dest,
              name_to_dest |-> u.name_to_dest,
              dest_to_group |-> DictUpdate(d2g, {u.dest}, group)]

\* BaseParser._update_name_to_group: the outcome, the (names, dest) it
\* returns, and both tables as it leaves them
update_name_to_group(names, dest, group, n2d, d2g) ==
    LET u == update_name_to_dest(names, dest, n2d)
    IN  IF u.outcome # "return"
        THEN [outcome |-> u.outcome, names |-> u.names, dest |-> u.dest,
              name_to_dest |-> u.name_to_dest, dest_to_group |-> d2g]
        ELSE IF ~isidentifier(u.dest) \/ u.dest \in DOMAIN d2g
        THEN [outcome |-> "ValueError", names |-> u.names, dest |-> u.dest,
              name_to_dest |-> u.name_to_dest, dest_to_group |-> d2g]
        ELSE [outcome |-> "return", names |-> u.names, dest |-> u.dest,
              name_to_dest |-> u.name_to_dest,
              dest_to_group |-> DictUpdate(d2g, {u.dest}, group)]

\* the argument action=None of the add_* methods
NoAction == [kind |-> "None", func |-> "", elem |-> "", coll |-> "", elems |-> << >>]

\* action or DEFAULT_ACTION
ActionOrDefault(action) == IF action = NoAction THEN DEFAULT_ACTION ELSE action

\* the parser takes calls: no programmer error (ValueError) has propagated
\* out of a registration, and no bind has been made yet (one bind per run)
Ready == last.outcome = "return" /\ last.op \notin {"parse_vals", "separate_argv", "argv", "run", "token",
                                             "call_positional", "call_keyword", "stream"}

NumSpecs == Len(pos_only_specs) + Len(pos_or_kw_specs) + Len(kw_only_specs)
              + Len(var_pos_spec) + Len(var_kw_spec)

\* the part common to the five add_* methods: the tables after
\* _update_name_to_group, and the new spec when it returned
Registered(op, u) ==
    /\ name_to_dest' = u.name_to_dest
    /\ dest_to_group' = u.dest_to_group
    /\ last' = [op |-> op, outcome |-> u.outcome, names |-> u.names, dest |-> u.dest]
    /\ UNCHANGED << magic_specs, module_vars >>

add_positional_only(dest, names, action, default) ==
    LET u == update_name_to_group(names, dest, POSITIONAL_ONLY, name_to_dest, dest_to_group)
    IN  /\ Ready /\ NumSpecs < MaxSpecs
        /\ Registered("add_positional_only", u)
        /\ pos_only_specs' = IF u.outcome = "return"
              THEN Append(pos_only_specs,
                          ArgumentSpec(u.dest, u.names, ActionOrDefault(action), default))
              ELSE pos_only_specs
        /\ UNCHANGED << pos_or_kw_specs, kw_only_specs, var_pos_spec, var_kw_spec >>

add_positional_or_keyword(dest, names, action, default) ==
    LET u == update_name_to_group(names, dest, POSITIONAL_OR_KEYWORD, name_to_dest, dest_to_group)
    IN  /\ Ready /\ NumSpecs < MaxSpecs
        /\ Registered("add_positional_or_keyword", u)
        /\ pos_or_kw_specs' = IF u.outcome = "return"
              THEN Append(pos_or_kw_specs,
                          ArgumentSpec(u.dest, u.names, ActionOrDefault(action), default))
              ELSE pos_or_kw_specs
        /\ UNCHANGED << pos_only_specs, kw_only_specs, var_pos_spec, var_kw_spec >>

add_var_positional(dest, names, action, default) ==
    LET u == update_name_to_group(names, dest, VAR_POSITIONAL, name_to_dest, dest_to_group)
    IN  /\ Ready /\ NumSpecs < MaxSpecs
        /\ IF var_pos_spec # << >>
           THEN /\ last' = [op |-> "add_var_positional", outcome |-> "ValueError",
                         names |-> u.names, dest |-> u.dest]
                /\ UNCHANGED << parser_vars, module_vars >>
           ELSE /\ Registered("add_var_positional", u)
                /\ var_pos_spec' = IF u.outcome = "return"
                      THEN << ArgumentSpec(u.dest, u.names, ActionOrDefault(action), default) >>
                      ELSE var_pos_spec
                /\ UNCHANGED << pos_only_specs, pos_or_kw_specs, kw_only_specs, var_kw_spec >>

add_keyword_only(dest, names, action, default) ==
    LET u == update_name_to_group(names, dest, KEYWORD_ONLY, name_to_dest, dest_to_group)
    IN  /\ Ready /\ NumSpecs < MaxSpecs
        /\ Registered("add_keyword_only", u)
        /\ kw_only_specs' = IF u.outcome = "return"
              THEN Append(kw_only_specs,
                          ArgumentSpec(u.dest, u.names, ActionOrDefault(action), default))
              ELSE kw_only_specs
        /\ UNCHANGED << pos_only_specs, pos_or_kw_specs, var_pos_spec, var_kw_spec >>

add_var_keyword(dest, names, action, default) ==
    LET u == update_name_to_group(names, dest, VAR_KEYWORD, name_to_dest, dest_to_group)
    IN  /\ Ready /\ NumSpecs < MaxSpecs
        /\ IF var_kw_spec # << >>
           THEN /\ last' = [op |-> "add_var_keyword", outcome |-> "ValueError",
                         names |-> u.names, dest |-> u.dest]
                /\ UNCHANGED << parser_vars, module_vars >>
           ELSE /\ Registered("add_var_keyword", u)
                /\ var_kw_spec' = IF u.outcome = "return"
                      THEN << ArgumentSpec(u.dest, u.names, ActionOrDefault(action), default) >>
                      ELSE var_kw_spec
                /\ UNCHANGED << pos_only_specs, pos_or_kw_specs, kw_only_specs, var_pos_spec >>

-----------------------------------------------------------------------------
(* sugar/_parser.py: the binding resolver *)

\* the index of the entry of dict d (a sequence of records with a dest) for
\* key dest, 0 when there is none
IndexOf(d, dest) ==
    IF \E i \in 1..Len(d) : d[i].dest = dest
    THEN CHOOSE i \in 1..Len(d) : d[i].dest = dest
    ELSE 0

\* the keys of dict d, in insertion order
Keys(d) == [i \in 1..Len(d) |-> d[i].dest]

\* where _make_tokens_by_group puts a pair named name: the dest and the
\* bucket (target), or a KeyError when the dest of the name has no group
TargetOf(name, groups) ==
    IF name \notin DOMAIN name_to_dest
    THEN [outcome |-> "return", dest |-> name, target |-> NoGroup]
    ELSE LET dest == name_to_dest[name]
         IN  IF dest \notin DOMAIN dest_to_group
             THEN [outcome |-> "KeyError", dest |-> dest, target |-> NoGroup]
             ELSE [outcome |-> "return", dest |-> dest,
                   target |-> IF dest_to_group[dest] \in groups
                              THEN dest_to_group[dest] ELSE NoGroup]

\* AddToken with a later occurrence replacing the values of the earlier ones
AddToken_replace(tokens, dest, val) ==
    IF \E i \in 1..Len(tokens) : tokens[i].dest = dest
    THEN [i \in 1..Len(tokens) |->
             IF tokens[i].dest = dest
             THEN KeywordToken(dest, val, tokens[i].count + 1) ELSE tokens[i]]
    ELSE Append(tokens, KeywordToken(dest, val, 1))

\* one turn of the loop of _make_tokens_by_group: a new KeywordToken, or
\* the values appended to the token of the dest and its count raised
AddToken(tokens, dest, val) ==
    LET i == IndexOf(tokens, dest)
    IN  IF i = 0 THEN Append(tokens, KeywordToken(dest, val, 1))
        ELSE [tokens EXCEPT ![i] = KeywordToken(dest, @.value \o val, @.count + 1)]

RECURSIVE MakeTokensLoop(_, _, _)
MakeTokensLoop(named_vals, groups, acc) ==
    IF named_vals = << >> \/ acc.outcome # "return" THEN acc
    ELSE LET t == TargetOf(Head(named_vals)[1], groups)
         IN  IF t.outcome # "return"
             THEN [acc EXCEPT !.outcome = t.outcome]
             ELSE MakeTokensLoop(Tail(named_vals), groups,
                     [acc EXCEPT !.group_tokens[t.target] =
                                    AddToken(@, t.dest, Head(named_vals)[2])])

\* BaseParser._make_tokens_by_group: group -> dict dest -> KeywordToken
make_tokens_by_group(named_vals, groups) ==
    MakeTokensLoop(named_vals, groups,
        [outcome |-> "return",
         group_tokens |-> [g \in groups \cup {NoGroup} |-> << >>]])

\* the caller's value lists after _make_tokens_by_group: a new token holds
\* the caller's list itself, which later occurrences extend in place
NamedValsAfter(named_vals, groups, group_tokens) ==
    [i \in 1..Len(named_vals) |->
        LET t == TargetOf(named_vals[i][1], groups)
            first == \A j \in 1..(i - 1) :
                        LET tj == TargetOf(named_vals[j][1], groups)
                        IN  ~(tj.target = t.target /\ tj.dest = t.dest)
            k == IF t.outcome = "return" THEN IndexOf(group_tokens[t.target], t.dest) ELSE 0
        IN  IF first /\ k # 0
            THEN << named_vals[i][1], group_tokens[t.target][k].value >>
            ELSE named_vals[i]]

\* handle_magic with the callback run once per occurrence of the flag
handle_magic_per_occurrence(dest_to_tokens) ==
    Concat([i \in 1..Len(dest_to_tokens) |->
        [j \in 1..dest_to_tokens[i].count |->
            magic_specs[CHOOSE m \in 1..Len(magic_specs) :
                            magic_specs[m].dest = dest_to_tokens[i].dest].action.func]])

\* BaseParser._handle_magic: the callbacks run, one per magic token
handle_magic(dest_to_tokens) ==
    [i \in 1..Len(dest_to_tokens) |->
        magic_specs[IndexOf(magic_specs, dest_to_tokens[i].dest)].action.func]

Note(category, dests) == [category |-> category, dests |-> dests]

\* a note is appended only for a category that has something to report
NoteIf(category, dests) == IF dests # << >> THEN << Note(category, dests) >> ELSE << >>

\* _handle_errors: the positional-only dests past the positional values
\* (islice(self._pos_only_specs, n_vals, n_pos_only))
missing_pos_only_dests(vals) ==
    IF Len(vals) < Len(pos_only_specs)
    THEN SubSeq(Keys(pos_only_specs), Len(vals) + 1, Len(pos_only_specs))
    ELSE << >>

\* the dests of the specs of the dict specs at the indices ks
DestsAt(specs, ks) == [j \in 1..Len(ks) |-> specs[ks[j]].dest]

\* the indices of the dict specs, in insertion order
Indices(specs) == [k \in 1..Len(specs) |-> k]

\* conflicting_dests with the index counted from one (enumerate(..., n_pos_only + 1))
conflicting_dests_from_one(vals, pos_or_kw_tokens) ==
    LET ks == SelectSeq([k \in 1..Len(pos_or_kw_specs) |-> k], LAMBDA k :
                 /\ Len(pos_only_specs) + k < Len(vals)
                 /\ \E t \in 1..Len(pos_or_kw_tokens) :
                        pos_or_kw_tokens[t].dest = pos_or_kw_specs[k].dest)
    IN  [j \in 1..Len(ks) |-> pos_or_kw_specs[ks[j]].dest]

\* _handle_errors: the positional-or-keyword dests covered by a positional
\* value and present among the tokens (i is Len(pos_only_specs) + k - 1)
conflicting_dests(vals, pos_or_kw_tokens) ==
    DestsAt(pos_or_kw_specs, SelectSeq(Indices(pos_or_kw_specs), LAMBDA k :
        /\ Len(pos_only_specs) + k - 1 < Len(vals)
        /\ IndexOf(pos_or_kw_tokens, pos_or_kw_specs[k].dest) # 0))

\* missing_pos_dests with the default of the spec taken as declared
missing_pos_dests_any_default(vals, pos_or_kw_tokens) == << >>

\* _handle_errors: the positional-or-keyword dests with no positional
\* value, no token and no default
missing_pos_dests(vals, pos_or_kw_tokens) ==
    DestsAt(pos_or_kw_specs, SelectSeq(Indices(pos_or_kw_specs), LAMBDA k :
        /\ ~(Len(pos_only_specs) + k - 1 < Len(vals))
        /\ IndexOf(pos_or_kw_tokens, pos_or_kw_specs[k].dest) = 0
        /\ pos_or_kw_specs[k].default = MISSING))

\* too_many_positional with >= for >
too_many_positional_ge(vals) ==
    var_pos_spec = << >> /\ Len(vals) >= Len(pos_only_specs) + Len(pos_or_kw_specs)

\* _handle_errors: more positional values than positional specs, and no
\* variadic-positional spec to take them
too_many_positional(vals) ==
    var_pos_spec = << >> /\ Len(vals) > Len(pos_only_specs) + Len(pos_or_kw_specs)

\* missing_kw_dests with the default of the spec not consulted
missing_kw_dests_no_default(kw_only_tokens) ==
    LET ks == SelectSeq([k \in 1..Len(kw_only_specs) |-> k], LAMBDA k :
                 \A t \in 1..Len(kw_only_tokens) :
                     kw_only_tokens[t].dest # kw_only_specs[k].dest)
    IN  [j \in 1..Len(ks) |-> kw_only_specs[ks[j]].dest]

\* _handle_errors: the keyword-only dests with no token and no default
missing_kw_dests(kw_only_tokens) ==
    DestsAt(kw_only_specs, SelectSeq(Indices(kw_only_specs), LAMBDA k :
        /\ IndexOf(kw_only_tokens, kw_only_specs[k].dest) = 0
        /\ kw_only_specs[k].default = MISSING))

\* unknown_dests with the variadic-keyword spec not consulted
unknown_dests_always(unknown_tokens) ==
    [i \in 1..Len(unknown_tokens) |-> unknown_tokens[i].dest]

\* _handle_errors: the unknown tokens reported, none when a
\* variadic-keyword spec takes them
unknown_dests(unknown_tokens) ==
    IF var_kw_spec = << >> THEN Keys(unknown_tokens) ELSE << >>

\* ArgumentParser._handle_errors: the notes of the SugarError it raises,
\* empty when it returns
handle_errors(vals, pos_only_tokens, pos_or_kw_tokens, kw_only_tokens, unknown_tokens) ==
       NoteIf("missing positional-only", missing_pos_only_dests(vals))
    \o NoteIf("conflicting positional-only", Keys(pos_only_tokens))
    \o NoteIf("missing positional or keyword", missing_pos_dests(vals, pos_or_kw_tokens))
    \o NoteIf("conflicting positional or keyword", conflicting_dests(vals, pos_or_kw_tokens))
    \o (IF too_many_positional(vals) THEN << Note("too many positional", << >>) >> ELSE << >>)
    \o NoteIf("missing keyword", missing_kw_dests(kw_only_tokens))
    \o NoteIf("unknown keyword", unknown_dests(unknown_tokens))

\* one element of args or one entry of kwargs as parse_vals plans it:
\* where it goes (into, key), the spec it belongs to (group, spec), how it
\* is obtained (mode: positional, keyword or default) and from which token
Plan(into, key, group, spec, mode, token) ==
    [into |-> into, key |-> key, group |-> group, spec |-> spec,
     mode |-> mode, token |-> token]

NoToken == [dest |-> None, value |-> None]

\* the loops of parse_vals over the five groups, in the order it runs them
BindPlan(vals, pos_or_kw_tokens, kw_only_tokens, var_kw_tokens) ==
    LET n_pos_only == Len(pos_only_specs)
        n_pos_or_kw == Len(pos_or_kw_specs)
        n_pos == n_pos_only + n_pos_or_kw
        n_vals == Len(vals)
        n_rest == IF n_vals > n_pos THEN n_vals - n_pos ELSE 0
    IN  [k \in 1..n_pos_only |->
            IF k - 1 < n_vals
            THEN Plan("args", pos_only_specs[k].dest, POSITIONAL_ONLY, pos_only_specs[k],
                      "positional", PositionalToken(pos_only_specs[k].dest, vals[k]))
            ELSE Plan("args", pos_only_specs[k].dest, POSITIONAL_ONLY, pos_only_specs[k],
                      "default", NoToken)]
     \o [k \in 1..n_pos_or_kw |->
            LET spec == pos_or_kw_specs[k]
                i == n_pos_only + k - 1
                j == IndexOf(pos_or_kw_tokens, spec.dest)
            IN  IF i < n_vals
                THEN Plan("args", spec.dest, POSITIONAL_OR_KEYWORD, spec, "positional",
                          PositionalToken(spec.dest, vals[i + 1]))
                ELSE IF j = 0
                THEN Plan("args", spec.dest, POSITIONAL_OR_KEYWORD, spec, "default", NoToken)
                ELSE Plan("args", spec.dest, POSITIONAL_OR_KEYWORD, spec, "keyword",
                          pos_or_kw_tokens[j])]
     \o (IF var_pos_spec # << >>
         THEN [k \in 1..n_rest |->
                  Plan("args", var_pos_spec[1].dest, VAR_POSITIONAL, var_pos_spec[1],
                       "positional",
                       PositionalToken(var_pos_spec[1].dest, vals[n_pos + k]))]
         ELSE << >>)
     \o [k \in 1..Len(kw_only_specs) |->
            LET spec == kw_only_specs[k]
                j == IndexOf(kw_only_tokens, spec.dest)
            IN  IF j = 0
                THEN Plan("kwargs", spec.dest, KEYWORD_ONLY, spec, "default", NoToken)
                ELSE Plan("kwargs", spec.dest, KEYWORD_ONLY, spec, "keyword",
                          kw_only_tokens[j])]
     \o (IF var_kw_spec # << >>
         THEN [k \in 1..Len(var_kw_tokens) |->
                  Plan("kwargs", var_kw_tokens[k].dest, VAR_KEYWORD, var_kw_spec[1],
                       "keyword", var_kw_tokens[k])]
         ELSE << >>)

\* Slot with the default of the spec, when it has one, preferred to its
\* named token
Slot_default_first(p) ==
    [into |-> p.into, key |-> p.key, group |-> p.group, dest |-> p.spec.dest,
     mode |-> p.mode, token |-> p.token,
     result |-> CASE p.mode = "positional" -> call_positional(p.spec.action, p.token)
                  [] p.mode = "keyword" /\ p.spec.default = MISSING ->
                        call_keyword(p.spec.action, p.token)
                  [] OTHER -> p.spec.default]

\* the value of one planned element: the action of its spec called on its
\* token, or the default of its spec
Slot(p) ==
    [into |-> p.into, key |-> p.key, group |-> p.group, dest |-> p.spec.dest,
     mode |-> p.mode, token |-> p.token,
     result |-> CASE p.mode = "positional" -> call_positional(p.spec.action, p.token)
                  [] p.mode = "keyword" -> call_keyword(p.spec.action, p.token)
                  [] OTHER -> p.spec.default]

BindSlots(plan) == [i \in 1..Len(plan) |-> Slot(plan[i])]

RECURSIVE DictFromSlots(_, _)
\* kwargs[key] = x for the slots in order: a key written again keeps its place
DictFromSlots(slots, d) ==
    IF slots = << >> THEN d
    ELSE DictFromSlots(Tail(slots),
            IF IndexOf(d, Head(slots).key) = 0
            THEN Append(d, [dest |-> Head(slots).key, value |-> Head(slots).result])
            ELSE [d EXCEPT ![IndexOf(d, Head(slots).key)].value = Head(slots).result])

\* the action calls made: every slot but the defaults
CallsOf(slots) == SelectSeq(slots, LAMBDA s : s.mode # "default")

\* the results of the slots that go into args
ArgsOf(slots) ==
    LET a == SelectSeq(slots, LAMBDA s : s.into = "args")
    IN  [i \in 1..Len(a) |-> a[i].result]

\* the index of the first slot whose action raises, 0 when none does
FirstRaise(slots) ==
    IF \E i \in 1..Len(slots) : IsRaise(slots[i].result)
    THEN CHOOSE i \in 1..Len(slots) :
            /\ IsRaise(slots[i].result)
            /\ \A j \in 1..(i - 1) : ~IsRaise(slots[j].result)
    ELSE 0

\* the record of one call of parse_vals
ParseRecord(vals, named_vals, after, gt, outcome, events, notes, calls, error, args, kwargs) ==
    [op |-> "parse_vals", outcome |-> outcome,
     status |-> IF outcome = "SugarExit" THEN 0 ELSE -1,
     vals |-> vals, named_vals |-> named_vals,
     vals_after |-> vals, named_vals_after |-> after,
     group_tokens |-> gt,
     events |-> events, notes |-> notes, calls |-> calls,
     error |-> error, args |-> args, kwargs |-> kwargs]

\* parse_vals, lines 606-657: the conversions, up to the first that raises
parse_vals_bind(vals, named_vals, after, gt, slots, f) ==
    IF f # 0
    THEN ParseRecord(vals, named_vals, after, gt, slots[f].result.t, << >>, << >>,
                     CallsOf(SubSeq(slots, 1, f)), slots[f].result, << >>, << >>)
    ELSE ParseRecord(vals, named_vals, after, gt, "return", << >>, << >>,
                     CallsOf(slots), PyNone, ArgsOf(slots),
                     DictFromSlots(SelectSeq(slots, LAMBDA s : s.into = "kwargs"), << >>))

\* the slots once computed
parse_vals_slots(vals, named_vals, after, gt, slots) ==
    parse_vals_bind(vals, named_vals, after, gt, slots, FirstRaise(slots))

\* parse_vals with the conversions made before the notes are looked at
parse_vals_check_after_bind(vals, named_vals, after, gt, notes) ==
    LET slots == BindSlots(BindPlan(vals, gt[POSITIONAL_OR_KEYWORD], gt[KEYWORD_ONLY],
                                    gt[NoGroup]))
    IN  IF notes # << >>
        THEN ParseRecord(vals, named_vals, after, gt, "SugarError", << >>, notes,
                         CallsOf(slots),
                         SugarError(<<"missing or conflicting arguments">>), << >>, << >>)
        ELSE parse_vals_slots(vals, named_vals, after, gt, slots)

\* parse_vals, lines 598-604: the validation
parse_vals_check(vals, named_vals, after, gt, notes) ==
    IF notes # << >>
    THEN ParseRecord(vals, named_vals, after, gt, "SugarError", << >>, notes, << >>,
                     SugarError(<<"missing or conflicting arguments">>), << >>, << >>)
    ELSE parse_vals_slots(vals, named_vals, after, gt,
            BindSlots(BindPlan(vals, gt[POSITIONAL_OR_KEYWORD], gt[KEYWORD_ONLY],
                               gt[NoGroup])))

\* parse_vals, lines 590-591: the magic tokens
parse_vals_magic(vals, named_vals, after, outcome, gt) ==
    IF outcome # "return"
    THEN ParseRecord(vals, named_vals, after, gt, outcome, << >>, << >>, << >>,
                     PyNone, << >>, << >>)
    ELSE IF gt[MAGIC] # << >>
    THEN ParseRecord(vals, named_vals, after, gt, "SugarExit", handle_magic(gt[MAGIC]),
                     << >>, << >>, PyNone, << >>, << >>)
    ELSE parse_vals_check(vals, named_vals, after, gt,
            handle_errors(vals, gt[POSITIONAL_ONLY], gt[POSITIONAL_OR_KEYWORD],
                          gt[KEYWORD_ONLY], gt[NoGroup]))

\* the tokens once merged
parse_vals_tokens(vals, named_vals, m) ==
    parse_vals_magic(vals, named_vals,
                     NamedValsAfter(named_vals, ArgumentParser_groups, m.group_tokens),
                     m.outcome, m.group_tokens)

\* ArgumentParser.parse_vals: the record of one call
parse_vals(vals, named_vals) ==
    parse_vals_tokens(vals, named_vals,
                      make_tokens_by_group(named_vals, ArgumentParser_groups))

\* parse_vals on the result of separate_argv
parse_separated(s) == parse_vals(s.vals, s.named_vals)

-----------------------------------------------------------------------------
(* sugar/_action.py: type descriptions and resolve_type.  A type           *)
(* description is a graph of Python objects: a node of TypeNodes is one    *)
(* object, named by the text that builds it, and holds the names of the    *)
(* objects it refers to (the __args__ of a generic or a union, the         *)
(* __value__ of a type alias, the __origin__ of an Annotated).  Classes,   *)
(* None, Any, Ellipsis and aliases are single objects wherever they occur.     *)
(* What resolve_type returns is a type built anew: a tree, in which an     *)
(* alias left unexpanded is a leaf.                                        *)

Node(k, n, a) == [k |-> k, n |-> n, a |-> a]

TypeNodes ==
    "int" :> Node("class", "int", << >>)
 @@ "str" :> Node("class", "str", << >>)
 @@ "list" :> Node("class", "list", << >>)
 @@ "tuple" :> Node("class", "tuple", << >>)
 @@ "set" :> Node("class", "set", << >>)
 @@ "dict" :> Node("class", "dict", << >>)
 @@ "Sequence" :> Node("class", "Sequence", << >>)
 @@ "Iterable" :> Node("class", "Iterable", << >>)
 @@ "ByteString" :> Node("class", "ByteString", << >>)
 @@ "None" :> Node("None", "None", << >>)
 @@ "Any" :> Node("Any", "Any", << >>)
 @@ "..." :> Node("Ellipsis", "...", << >>)
 @@ "'x'" :> Node("const", "'x'", << >>)
 @@ "UserId" :> Node("NewType", "UserId", << >>)
 @@ "typing.List" :> Node("bare", "list", << >>)
 @@ "list[int]" :> Node("generic", "list", <<"int">>)
 @@ "typing.List[int]" :> Node("generic", "list", <<"int">>)
 @@ "list[int, str]" :> Node("generic", "list", <<"int", "str">>)
 @@ "set[int]" :> Node("generic", "set", <<"int">>)
 @@ "Sequence[int]" :> Node("generic", "Sequence", <<"int">>)
 @@ "dict[str, int]" :> Node("generic", "dict", <<"str", "int">>)
 @@ "tuple[int, ...]" :> Node("generic", "tuple", <<"int", "...">>)
 @@ "tuple[int, str]" :> Node("generic", "tuple", <<"int", "str">>)
 @@ "tuple[()]" :> Node("generic", "tuple", << >>)
 @@ "Literal['x']" :> Node("generic", "Literal", <<"'x'">>)
 @@ "int | None" :> Node("union", "", <<"int", "None">>)
 @@ "int | str" :> Node("union", "", <<"int", "str">>)
 @@ "str | int" :> Node("union", "", <<"str", "int">>)
 @@ "int | Any" :> Node("union", "", <<"int", "Any">>)
 @@ "Annotated[int, 0]" :> Node("annotated", "", <<"int">>)
 @@ "X" :> Node("alias", "X", <<"int">>)
 @@ "tuple[X, X]" :> Node("generic", "tuple", <<"X", "X">>)
 @@ "tuple[None, None]" :> Node("generic", "tuple", <<"None", "None">>)
 @@ "C" :> Node("alias", "C", <<"list[C]">>)
 @@ "list[C]" :> Node("generic", "list", <<"C">>)
 @@ "A" :> Node("alias", "A", <<"list[A] | int">>)
 @@ "list[A] | int" :> Node("union", "", <<"list[A]", "int">>)
 @@ "list[A]" :> Node("generic", "list", <<"A">>)
 @@ "L" :> Node("alias", "L", <<"L">>)

\* a type: a class, a parametrized generic (origin n, arguments a), a
\* union (members a), or an object returned as it was found
Type(k, n, a) == [k |-> k, n |-> n, a |-> a]
Class(n) == Type("class", n, << >>)
NoneType == Class("NoneType")
AnyType == Type("Any", "Any", << >>)
NoType == Type("", "", << >>)
\* the TypeError raised by _resolve_type, carried as its result
RaisedTypeError == Type("TypeError", "", << >>)

\* the order in which the members of a union are listed (a union compares
\* equal to any reordering of itself)
UnionOrder == <<"int", "str", "NoneType", "None", "list", "tuple", "set", "dict">>

\* reduce(or_, args): the members of nested unions flattened, duplicates
\* dropped; one member left is that member itself
UnionOf(args) ==
    LET flat == Concat([i \in 1..Len(args) |->
                    IF args[i].k = "union" THEN args[i].a ELSE <<args[i]>>])
        members == Dedup(flat)
        listed == Concat([j \in 1..Len(UnionOrder) |->
                    SelectSeq(members, LAMBDA t : t.n = UnionOrder[j])])
                  \o SelectSeq(members, LAMBDA t : t.n \notin Range(UnionOrder))
    IN  IF Len(listed) = 1 THEN listed[1] ELSE Type("union", "", listed)

RECURSIVE AsFound(_)
\* the object of a node, unresolved: what _resolve_type returns for a node
\* whose id is in ctx
AsFound(id) ==
    LET d == TypeNodes[id]
        args == [i \in 1..Len(d.a) |-> AsFound(d.a[i])]
    IN  IF d.k = "union" THEN UnionOf(args)
        ELSE IF d.k \in {"generic", "annotated"}
        THEN Type(d.k, d.n, args)
        ELSE Type(d.k, d.n, << >>)

\* hasattr(origin, "__class_getitem__")
HasClassGetitem(n) == n # "Literal"

\* _resolve_type, lines 398-412: the type made of the resolved arguments
Combine(d, args) ==
    IF d.k = "union"
    THEN IF \E i \in 1..Len(args) : args[i] = AnyType THEN AnyType ELSE UnionOf(args)
    ELSE IF d.n = "" \/ ~HasClassGetitem(d.n) THEN RaisedTypeError
    ELSE Type("generic", d.n, args)

\* one activation of _resolve_type: the node, where it stands ("enter":
\* called; "forward": waiting for the call it returns the result of;
\* "args": waiting for argument i; "done": returning val), and the
\* arguments resolved so far
Frame(node, phase, i, acc, val) ==
    [node |-> node, phase |-> phase, i |-> i, acc |-> acc, val |-> val]

Activation(node) == Frame(node, "enter", 0, << >>, NoType)

Idle == [status |-> "idle", tp |-> "", frames |-> << >>, ctx |-> {},
         expanded |-> << >>, result |-> NoType]

\* resolve_type(tp) called: _resolve_type(tp, set())
Start(tp) == [status |-> "running", tp |-> tp, frames |-> <<Activation(tp)>>, ctx |-> {},
              expanded |-> << >>, result |-> NoType]

Top(m) == m.frames[Len(m.frames)]
SetTop(m, f) == [m EXCEPT !.frames[Len(m.frames)] = f]
Returning(m, v) == SetTop(m, Frame(Top(m).node, "done", 0, << >>, v))
Calling(m, phase, i, acc, node) ==
    [m EXCEPT !.frames = Append(SubSeq(@, 1, Len(@) - 1),
                                Frame(Top(m).node, phase, i, acc, NoType))
                         \o <<Activation(node)>>]

\* _resolve_type, lines 375-396: seen is the test tid in ctx
resolve_enter(m, seen) ==
    LET tp == Top(m).node
        d == TypeNodes[tp]
        m1 == [m EXCEPT !.ctx = @ \cup {tp}, !.expanded = Append(@, tp)]
    IN  IF seen THEN Returning(m, AsFound(tp))
        ELSE IF d.k = "None" THEN Returning(m1, NoneType)
        ELSE IF d.k \in {"alias", "annotated"} THEN Calling(m1, "forward", 0, << >>, d.a[1])
        ELSE IF d.k = "bare" THEN Returning(m1, Class(d.n))
        ELSE IF d.k \in {"generic", "union"}
        THEN IF d.a = << >> THEN Returning(m1, Combine(d, << >>))
             ELSE Calling(m1, "args", 1, << >>, d.a[1])
        ELSE Returning(m1, AsFound(tp))

\* a call made by _resolve_type returns to it: the result is returned
\* unchanged (alias, Annotated), or is one more resolved argument
resolve_deliver(m) ==
    LET n == Len(m.frames)
        v == m.frames[n].val
        parent == m.frames[n - 1]
        d == TypeNodes[parent.node]
        back == [m EXCEPT !.frames = SubSeq(@, 1, n - 1)]
    IN  IF parent.phase = "forward" \/ v = RaisedTypeError THEN Returning(back, v)
        ELSE IF parent.i < Len(d.a)
        THEN Calling(back, "args", parent.i + 1, Append(parent.acc, v), d.a[parent.i + 1])
        ELSE Returning(back, Combine(d, Append(parent.acc, v)))

\* the outermost _resolve_type returns to resolve_type
resolve_return(m) ==
    [m EXCEPT !.status = "done", !.frames = << >>, !.result = Top(m).val]

\* the cycle guard letting a node through a second time
resolve_step_twice(m) ==
    IF Top(m).phase = "enter"
    THEN resolve_enter(m, Len(SelectSeq(m.expanded, LAMBDA x : x = Top(m).node)) >= 2)
    ELSE IF Len(m.frames) > 1 THEN resolve_deliver(m)
    ELSE resolve_return(m)

\* one step of a running call
resolve_step(m) ==
    IF Top(m).phase = "enter" THEN resolve_enter(m, Top(m).node \in m.ctx)
    ELSE IF Len(m.frames) > 1 THEN resolve_deliver(m)
    ELSE resolve_return(m)

RECURSIVE resolve_run(_)
resolve_run(m) == IF m.status = "done" THEN m ELSE resolve_run(resolve_step(m))

\* resolve_type: the type returned, RaisedTypeError when it raises
resolve_type(tp) == resolve_run(Start(tp)).result

-----------------------------------------------------------------------------
(* sugar/_action.py: make_type, the action table, auto *)

\* Store(constant): the constant, named, is held in func
Store(constant) ==
    [kind |-> "Store", func |-> constant, elem |-> "", coll |-> "", elems |-> << >>]

\* an Action object: the action and its identity, the rank of its creation
Instance(id, action) == [id |-> id, action |-> action]
NoInstance == Instance(0, NoAction)

\* ACTIONS as written in the source
ACTIONS_initial ==
    Class("str") :> Instance(1, Converter("str_"))
 @@ Class("int") :> Instance(2, Converter("int_"))
 @@ Class("float") :> Instance(3, Converter("float"))
 @@ Class("complex") :> Instance(4, Converter("complex"))
 @@ Class("bool") :> Instance(5, Converter("bool_"))
 @@ Class("bytes") :> Instance(6, Converter("bytes_"))
 @@ NoneType :> Instance(7, Store("None"))
 @@ AnyType :> Instance(8, Converter("any_"))

PRIMITIVES ==
    Class("str") :> "str_" @@ Class("int") :> "int_" @@ Class("float") :> "float"
 @@ Class("complex") :> "complex" @@ Class("bool") :> "bool_"
 @@ Class("bytes") :> "bytes_" @@ NoneType :> "none" @@ AnyType :> "any_"

ABSTRACT_TO_CONCRETE ==
    "Hashable" :> "tuple" @@ "Iterable" :> "list" @@ "Reversible" :> "list"
 @@ "Sized" :> "list" @@ "Container" :> "list" @@ "Collection" :> "list"
 @@ "Set" :> "set" @@ "MutableSet" :> "set" @@ "Mapping" :> "dict"
 @@ "MutableMapping" :> "dict" @@ "Sequence" :> "list"
 @@ "MutableSequence" :> "list" @@ "Buffer" :> "bytes"

\* the classes of the type descriptions: issubclass(origin, tuple),
\* issubclass(origin, Mapping), issubclass(origin, Collection), isabstract
ClassNames == {"int", "str", "float", "complex", "bool", "bytes", "NoneType", "list",
               "tuple", "set", "dict", "Sequence", "Iterable", "ByteString"}
IsTupleClass(n) == n = "tuple"
IsMappingClass(n) == n = "dict"
IsCollectionClass(n) ==
    n \in {"str", "bytes", "list", "tuple", "set", "dict", "Sequence", "ByteString"}
IsAbstractClass(n) == n \in {"Sequence", "Iterable", "ByteString"}

RECURSIVE TypeName(_)
\* str(tp), and tp.__name__ for a class
TypeName(tp) ==
    LET names == [i \in 1..Len(tp.a) |-> TypeName(tp.a[i])]
        Joined(sep) == IF names = << >> THEN ""
                       ELSE LET RECURSIVE J(_)
                                J(i) == IF i = Len(names) THEN names[i]
                                        ELSE names[i] \o sep \o J(i + 1)
                            IN  J(1)
    IN  IF tp.k = "generic" THEN tp.n \o "[" \o Joined(", ") \o "]"
        ELSE IF tp.k = "union" THEN Joined(" | ")
        ELSE tp.n

\* make_type: the entry of PRIMITIVES, else the generated function type_,
\* which is named after the type
make_type(tp) ==
    IF tp \in DOMAIN PRIMITIVES THEN PRIMITIVES[tp] ELSE "type_ " \o TypeName(tp)

Returned(action) == [outcome |-> "return", action |-> action]
Raised(exc) == [outcome |-> exc, action |-> NoAction]

\* the body of _auto with no case for the tuple of one repeated element
auto_body_no_ellipsis(tp) ==
    IF tp.k = "union" THEN Returned(Converter(make_type(tp)))
    ELSE IF ~(tp.k \in {"class", "generic"} /\ tp.n \in ClassNames)
    THEN Raised("TypeError")
    ELSE IF IsTupleClass(tp.n)
    THEN IF tp.k = "class" THEN Returned(Build(tp.n, "any_", make_type(tp)))
         ELSE Returned(Record(tp.n, [i \in 1..Len(tp.a) |-> make_type(tp.a[i])],
                              make_type(tp)))
    ELSE IF ~IsMappingClass(tp.n) /\ IsCollectionClass(tp.n)
    THEN IF tp.k = "generic" /\ Len(tp.a) # 1 THEN Raised("TypeError")
         ELSE IF IsAbstractClass(tp.n) /\ tp.n \notin DOMAIN ABSTRACT_TO_CONCRETE
         THEN Raised("TypeError")
         ELSE Returned(Build(IF IsAbstractClass(tp.n) THEN ABSTRACT_TO_CONCRETE[tp.n]
                                                      ELSE tp.n,
                             IF tp.k = "class" THEN "any_" ELSE make_type(tp.a[1]),
                             make_type(tp)))
    ELSE Returned(Converter(make_type(tp)))

\* the body of _auto, lines 421-462
auto_body(tp) ==
    IF tp.k = "union" THEN Returned(Converter(make_type(tp)))
    ELSE IF ~(tp.k \in {"class", "generic"} /\ tp.n \in ClassNames)
    THEN Raised("TypeError")
    ELSE IF IsTupleClass(tp.n)
    THEN IF tp.k = "class" THEN Returned(Build(tp.n, "any_", make_type(tp)))
         ELSE IF Len(tp.a) = 2 /\ tp.a[2].k = "Ellipsis"
         THEN Returned(Build(tp.n, make_type(tp.a[1]), make_type(tp)))
         ELSE Returned(Record(tp.n, [i \in 1..Len(tp.a) |-> make_type(tp.a[i])],
                              make_type(tp)))
    ELSE IF ~IsMappingClass(tp.n) /\ IsCollectionClass(tp.n)
    THEN IF tp.k = "generic" /\ Len(tp.a) # 1 THEN Raised("TypeError")
         ELSE IF IsAbstractClass(tp.n) /\ tp.n \notin DOMAIN ABSTRACT_TO_CONCRETE
         THEN Raised("TypeError")
         ELSE Returned(Build(IF IsAbstractClass(tp.n) THEN ABSTRACT_TO_CONCRETE[tp.n]
                                                      ELSE tp.n,
                             IF tp.k = "class" THEN "any_" ELSE make_type(tp.a[1]),
                             make_type(tp)))
    ELSE Returned(Converter(make_type(tp)))

\* the record of one call of auto
AutoRecord(n, tp, resolved, outcome, instance, hit) ==
    [op |-> "auto", outcome |-> outcome, n |-> n, tp |-> tp, resolved |-> resolved,
     instance |-> instance, hit |-> hit]

\* a cache that computes the action anew on every call
cached_auto_recompute(n, tp, resolved, r) ==
    /\ last' = AutoRecord(n, tp, resolved, r.outcome,
                          IF r.outcome = "return" THEN Instance(made + 1, r.action)
                          ELSE NoInstance, FALSE)
    /\ IF r.outcome = "return"
       THEN /\ ACTIONS_table' = [k \in DOMAIN ACTIONS_table \cup {resolved} |->
                              IF k = resolved THEN Instance(made + 1, r.action)
                              ELSE ACTIONS_table[k]]
            /\ made' = made + 1
       ELSE UNCHANGED << ACTIONS_table, made >>

\* cache_from_mapping(ACTIONS)(_auto): the entry of the table when there
\* is one, else the result of the body, written into the table
cached_auto(n, tp, resolved, r) ==
    IF resolved \in DOMAIN ACTIONS_table
    THEN /\ last' = AutoRecord(n, tp, resolved, "return", ACTIONS_table[resolved], TRUE)
         /\ UNCHANGED << ACTIONS_table, made >>
    ELSE /\ last' = AutoRecord(n, tp, resolved, r.outcome,
                               IF r.outcome = "return" THEN Instance(made + 1, r.action)
                               ELSE NoInstance, FALSE)
         /\ IF r.outcome = "return"
            THEN /\ ACTIONS_table' = [k \in DOMAIN ACTIONS_table \cup {resolved} |->
                                   IF k = resolved THEN Instance(made + 1, r.action)
                                   ELSE ACTIONS_table[k]]
                 /\ made' = made + 1
            ELSE UNCHANGED << ACTIONS_table, made >>

\* auto(tp), the n-th call: _auto(resolve_type(tp))
auto(n, tp, resolved) ==
    IF resolved = RaisedTypeError
    THEN /\ last' = AutoRecord(n, tp, resolved, "TypeError", NoInstance, FALSE)
         /\ UNCHANGED << ACTIONS_table, made >>
    ELSE cached_auto(n, tp, resolved, auto_body(resolved))


-----------------------------------------------------------------------------
(* The inputs of the model *)

\* the raw words of the argv a bind is made from: two values and four
\* short flags (the help flag among them)
ParseWords == { <<"1">>, <<"x">>, <<"-", "a">>, <<"-", "b">>, <<"-", "k">>, <<"-", "h">> }

\* the raw words of the argv handed to the classifier alone
ArgvWords == { <<"0">>, <<"1">>, <<"-">>, <<"-", "1">>, <<"-", "a">>,
               <<"-", "a", "b">>, <<"-", "-", "a">>, <<"-", "-", "a", "-", "b">>,
               <<"-", "-">>, <<"-", "-", "1">> }

\* a default value no conversion of a word of the model produces
Default == PyStr(<<"d", "e", "f">>)

Reg(kind, dest, names, action, default) ==
    [kind |-> kind, dest |-> dest, names |-> names, action |-> action, default |-> default]

\* the registration calls of the model
Menu == {
    Reg(POSITIONAL_ONLY, <<"a">>, None, NoAction, MISSING),
    Reg(POSITIONAL_ONLY, <<"p">>, None, Converter("int_"), Default),
    Reg(POSITIONAL_OR_KEYWORD, <<"a">>, None, NoAction, MISSING),
    Reg(POSITIONAL_OR_KEYWORD, <<"b">>, << <<"b">>, <<"k">> >>, Converter("int_"), Default),
    Reg(VAR_POSITIONAL, <<"v">>, None, Converter("int_"), MISSING),
    Reg(VAR_POSITIONAL, <<"k">>, None, NoAction, MISSING),
    Reg(KEYWORD_ONLY, <<"k">>, None, Build("list", "str_", "list_"), MISSING),
    Reg(KEYWORD_ONLY, <<"a">>, << <<"k">> >>, NoAction, Default),
    Reg(VAR_KEYWORD, <<"w">>, None, Converter("int_"), MISSING),
    Reg(VAR_KEYWORD, <<"w">>, << <<"w">>, <<"a">> >>, Build("list", "str_", "list_"), MISSING),
    Reg(POSITIONAL_OR_KEYWORD, <<"b">>, << <<"b">>, <<"1">> >>, NoAction, MISSING),
    Reg(KEYWORD_ONLY, <<"1">>, << <<"k">> >>, NoAction, MISSING) }

-----------------------------------------------------------------------------
(* The specification of the binding resolver: a parser is constructed,     *)
(* specs are registered, one bind is made.                                 *)

\* BaseParser.__init__ and ArgumentParser.__init__ with the default help_flags
Constructed ==
    LET u == update_name_to_group(DEFAULT_HELP_FLAGS, None, MAGIC, << >>, << >>)
    IN  /\ name_to_dest = u.name_to_dest
        /\ dest_to_group = u.dest_to_group
        /\ magic_specs = << MagicSpec(u.dest, u.names, Event("print_help")) >>
        /\ pos_only_specs = << >>
        /\ pos_or_kw_specs = << >>
        /\ kw_only_specs = << >>
        /\ var_pos_spec = << >>
        /\ var_kw_spec = << >>

\* the module once imported: the action table as written in the source,
\* no call of resolve_type in progress
Imported ==
    /\ ACTIONS_table = ACTIONS_initial
    /\ made = Cardinality(DOMAIN ACTIONS_initial)
    /\ resolving = Idle

Init == Constructed /\ Imported /\ last = [op |-> "__init__", outcome |-> "return"]

AddPositionalOnly ==
    \E r \in Menu : /\ r.kind = POSITIONAL_ONLY
                    /\ add_positional_only(r.dest, r.names, r.action, r.default)

AddPositionalOrKeyword ==
    \E r \in Menu : /\ r.kind = POSITIONAL_OR_KEYWORD
                    /\ add_positional_or_keyword(r.dest, r.names, r.action, r.default)

AddVarPositional ==
    \E r \in Menu : /\ r.kind = VAR_POSITIONAL
                    /\ add_var_positional(r.dest, r.names, r.action, r.default)

AddKeywordOnly ==
    \E r \in Menu : /\ r.kind = KEYWORD_ONLY
                    /\ add_keyword_only(r.dest, r.names, r.action, r.default)

AddVarKeyword ==
    \E r \in Menu : /\ r.kind = VAR_KEYWORD
                    /\ add_var_keyword(r.dest, r.names, r.action, r.default)

\* one bind, of the positional values and named groups of an argv
ParseVals ==
    \E argv \in SeqUpTo(ParseWords, MaxInput) :
        /\ Ready
        /\ last' = parse_separated(separate_argv(argv))
        /\ UNCHANGED << parser_vars, module_vars >>

Next ==
    \/ AddPositionalOnly
    \/ AddPositionalOrKeyword
    \/ AddVarPositional
    \/ AddKeywordOnly
    \/ AddVarKeyword
    \/ ParseVals

Spec == Init /\ [][Next]_vars

-----------------------------------------------------------------------------
(* The specification of the token classifier: an argv is drawn, and        *)
(* separate_argv is applied to it.                                         *)

InitArgv ==
    /\ Constructed /\ Imported
    /\ \E argv \in SeqUpTo(ArgvWords, MaxArgv) :
          last = [op |-> "argv", outcome |-> "return", argv |-> argv,
                  vals |-> << >>, named_vals |-> << >>]

SeparateArgv ==
    /\ last.op = "argv"
    /\ LET s == separate_argv(last.argv)
       IN  last' = [op |-> "separate_argv", outcome |-> s.outcome, argv |-> last.argv,
                    vals |-> s.vals, named_vals |-> s.named_vals]
    /\ UNCHANGED << parser_vars, module_vars >>

NextArgv == SeparateArgv

SpecArgv == InitArgv /\ [][NextArgv]_vars

-----------------------------------------------------------------------------
(* The specification of run: a parser is constructed, specs are            *)
(* registered, run is called once on a command line or a list of words.    *)

\* the length of the command line handed to run, in words
MaxRun == 2

RECURSIVE shlex_loop(_, _, _, _, _, _)
\* shlex.split in POSIX mode over spaces, double quotes and plain
\* characters: the words read so far, the word being read, whether a word
\* has started, whether a quotation is open
shlex_loop(s, i, token, started, quoted, words) ==
    IF i > Len(s)
    THEN IF quoted THEN [outcome |-> "ValueError", words |-> << >>]
         ELSE [outcome |-> "return",
               words |-> IF started THEN Append(words, token) ELSE words]
    ELSE IF quoted
    THEN IF s[i] = "\""
         THEN shlex_loop(s, i + 1, token, TRUE, FALSE, words)
         ELSE shlex_loop(s, i + 1, Append(token, s[i]), TRUE, TRUE, words)
    ELSE IF s[i] = " "
    THEN shlex_loop(s, i + 1, << >>, FALSE, FALSE,
                    IF started THEN Append(words, token) ELSE words)
    ELSE IF s[i] = "\""
    THEN shlex_loop(s, i + 1, token, TRUE, TRUE, words)
    ELSE shlex_loop(s, i + 1, Append(token, s[i]), TRUE, FALSE, words)

shlex_split(s) == shlex_loop(s, 1, << >>, FALSE, FALSE, << >>)

\* get_argv: a str is split by shlex.split, whose ValueError becomes a
\* SugarError; a list is returned as it is
get_argv(argv) ==
    IF argv.t = "str"
    THEN LET r == shlex_split(argv.v)
         IN  IF r.outcome = "ValueError"
             THEN [outcome |-> "SugarError", argv |-> << >>,
                   error |-> SugarError(<<"failed to parse argv">>)]
             ELSE [outcome |-> "return", argv |-> r.words, error |-> PyNone]
    ELSE [outcome |-> "return", argv |-> argv.v, error |-> PyNone]

\* the record of one call of run
RunRecord(argv, outcome, status, stderr, stage, parsed) ==
    [op |-> "run", outcome |-> outcome, status |-> status, argv |-> argv,
     stderr |-> stderr, stage |-> stage, parsed |-> parsed]

NotParsed == [op |-> "parse_vals", outcome |-> "none"]

\* run without the except clause: a SugarError propagates
run_uncaught_parsed(argv, r) ==
    IF r.outcome = "SugarError"
    THEN RunRecord(argv, "SugarError", -1, << >>, "parse_vals", r)
    ELSE IF r.outcome = "SugarExit"
    THEN RunRecord(argv, "SugarExit", r.status, << >>, "parse_vals", r)
    ELSE RunRecord(argv, r.outcome, -1, << >>, "parse_vals", r)

\* run, lines 331-334: the outcome of parse_vals; a SugarError is written
\* through the formatter and replaced by SugarExit(2), the SugarExit of a
\* magic flag passes
run_parsed(argv, r) ==
    IF r.outcome = "SugarError"
    THEN RunRecord(argv, "SugarExit", 2, <<[error |-> r.error, notes |-> r.notes]>>,
                   "parse_vals", r)
    ELSE IF r.outcome = "SugarExit"
    THEN RunRecord(argv, "SugarExit", r.status, << >>, "parse_vals", r)
    ELSE RunRecord(argv, r.outcome, -1, << >>, "parse_vals", r)

\* run, line 330: the outcome of separate_argv
run_separated(argv, words, s) ==
    IF s.outcome = "SugarError"
    THEN RunRecord(argv, "SugarExit", 2,
                   <<[error |-> SugarError(<<"invalid long flag">>
                        \o SelectSeq(words, LAMBDA w : parse_flag_and_value(w).e = "raise")),
                      notes |-> << >>]>>,
                   "separate_argv", NotParsed)
    ELSE run_parsed(argv, parse_separated(s))

\* BaseParser.run
run(argv) ==
    LET g == get_argv(argv)
    IN  IF g.outcome = "SugarError"
        THEN RunRecord(argv, "SugarExit", 2,
                       <<[error |-> g.error, notes |-> <<"shlex">>]>>,
                       "get_argv", NotParsed)
        ELSE run_separated(argv, g.argv, separate_argv(g.argv))

\* the words of a command line: a value, a word int_ rejects, a flag, the
\* help flag, an invalid long flag and a word with an unclosed quotation
RunWords == { <<"1">>, <<"x">>, <<"-", "a">>, <<"-", "h">>, <<"-", "-">>,
              <<"\"", "k">> }

RECURSIVE JoinWords(_)
\* the words joined by single spaces
JoinWords(ws) ==
    IF ws = << >> THEN << >>
    ELSE IF Len(ws) = 1 THEN ws[1]
    ELSE ws[1] \o <<" ">> \o JoinWords(Tail(ws))

\* the arguments of run: a command line (str) or a list of words
RunInputs ==
    {[t |-> "str", v |-> JoinWords(ws)] : ws \in SeqUpTo(RunWords, MaxRun)}
    \cup {[t |-> "list", v |-> ws] : ws \in SeqUpTo(RunWords \ {<<"\"", "k">>}, MaxRun)}

Run ==
    \E argv \in RunInputs :
        /\ Ready
        /\ last' = run(argv)
        /\ UNCHANGED << parser_vars, module_vars >>

NextRun ==
    \/ AddPositionalOnly
    \/ AddPositionalOrKeyword
    \/ AddVarPositional
    \/ AddKeywordOnly
    \/ AddVarKeyword
    \/ Run

SpecRun == Init /\ [][NextRun]_vars

-----------------------------------------------------------------------------
(* The specification of stream: a parser is constructed, specs are         *)
(* registered, stream is called and its generator is driven to the end:    *)
(* every step reads one line, or the end of the input.                     *)

\* the most specs of the parser stream is called on
MaxStreamSpecs == 1

\* the most lines read by one call of stream
MaxLines == 2

\* the registration calls made before stream
StreamMenu == {
    Reg(POSITIONAL_OR_KEYWORD, <<"a">>, None, Converter("int_"), MISSING),
    Reg(KEYWORD_ONLY, <<"k">>, None, Build("set", "any_", "set_"), Default),
    Reg(VAR_POSITIONAL, <<"v">>, None, NoAction, MISSING) }

\* the lines input returns: the empty line, a value, a word int_ rejects,
\* the help flag, a flag with a value, a flag with a list display, an
\* invalid long flag
StreamLines == { << >>, <<"1">>, <<"x">>, <<"-", "h">>, <<"-", "k", " ", "1">>,
                 <<"-", "k", " ", "[", "1", "]">>, <<"-", "-">> }

\* the state of the generator: the lines read, the results yielded (each
\* with the number of its line), and where it stands ("running", "return"
\* once finished, else the exception that left it)
StreamRecord(outcome, lines, yielded) ==
    [op |-> "stream", outcome |-> outcome, lines |-> lines, yielded |-> yielded]

\* stream, lines 354-358, for the line x and the record r of run(x): an
\* empty line is skipped, a result is yielded, SugarExit is passed over,
\* any other exception leaves the generator
stream_line(m, x, r) ==
    IF x = << >> THEN StreamRecord("running", Append(m.lines, x), m.yielded)
    ELSE IF r.outcome = "return"
    THEN StreamRecord("running", Append(m.lines, x),
                      Append(m.yielded, [line |-> Len(m.lines) + 1, result |-> r]))
    ELSE IF r.outcome = "SugarExit"
    THEN StreamRecord("running", Append(m.lines, x), m.yielded)
    ELSE StreamRecord(r.outcome, Append(m.lines, x), m.yielded)

StreamRegister ==
    \E r \in StreamMenu :
        /\ NumSpecs < MaxStreamSpecs
        /\ \/ r.kind = POSITIONAL_OR_KEYWORD
              /\ add_positional_or_keyword(r.dest, r.names, r.action, r.default)
           \/ r.kind = KEYWORD_ONLY
              /\ add_keyword_only(r.dest, r.names, r.action, r.default)
           \/ r.kind = VAR_POSITIONAL
              /\ add_var_positional(r.dest, r.names, r.action, r.default)

\* stream is called: the help is printed, the loop is entered
StreamStart ==
    /\ Ready
    /\ last' = StreamRecord("running", << >>, << >>)
    /\ UNCHANGED << parser_vars, module_vars >>

\* input returns a line
StreamInput ==
    /\ last.op = "stream" /\ last.outcome = "running" /\ Len(last.lines) < MaxLines
    /\ \E x \in StreamLines : last' = stream_line(last, x, run([t |-> "str", v |-> x]))
    /\ UNCHANGED << parser_vars, module_vars >>

\* input raises EOFError: the loop is left and the generator finishes
StreamEof ==
    /\ last.op = "stream" /\ last.outcome = "running"
    /\ last' = StreamRecord("return", last.lines, last.yielded)
    /\ UNCHANGED << parser_vars, module_vars >>

\* input raises KeyboardInterrupt, which is raised again
StreamInterrupt ==
    /\ last.op = "stream" /\ last.outcome = "running"
    /\ last' = StreamRecord("KeyboardInterrupt", last.lines, last.yielded)
    /\ UNCHANGED << parser_vars, module_vars >>

NextStream == StreamRegister \/ StreamStart \/ StreamInput \/ StreamEof \/ StreamInterrupt

SpecStream == Init /\ [][NextStream]_vars

-----------------------------------------------------------------------------
(* The specification of the actions: an action and a token are drawn, and  *)
(* the action is called on the token.                                      *)

\* the number of values of a keyword token
MaxVals == 2

\* the actions: the ones auto derives for int, Any, list[int], list, set,
\* tuple[str, ...], and Records of two, one and no converters
ActionMenu == {
    Converter("int_"), Converter("any_"),
    Build("list", "int_", "list_"), Build("list", "any_", "list_"),
    Build("set", "any_", "set_"), Build("tuple", "str_", "tuple_"),
    Record("tuple", <<"int_", "str_">>, "tuple_"),
    Record("tuple", <<"int_">>, "tuple_"),
    Record("tuple", << >>, "tuple_") }

\* the raw values: an integer, an identifier, a list display, a tuple
ActionTexts == { <<"1">>, <<"x">>, <<"[", "1", "]">>, <<"1", ",", "x">> }

InitAction ==
    /\ Constructed /\ Imported
    /\ \E action \in ActionMenu :
          \/ \E value \in ActionTexts :
                last = [op |-> "token", outcome |-> "return", action |-> action,
                        mode |-> "positional",
                        token |-> PositionalToken(<<"x">>, value)]
          \/ \E value \in SeqUpTo(ActionTexts, MaxVals) :
                last = [op |-> "token", outcome |-> "return", action |-> action,
                        mode |-> "keyword",
                        token |-> KeywordToken(<<"x">>, value, 1)]

\* the record of one call of an action
CallRecord(op, action, mode, token, result) ==
    [op |-> op, outcome |-> IF IsRaise(result) THEN result.t ELSE "return",
     action |-> action, mode |-> mode, token |-> token, result |-> result,
     conversions |-> conversions(action, mode, token)]

CallPositional ==
    /\ last.op = "token" /\ last.mode = "positional"
    /\ last' = CallRecord("call_positional", last.action, last.mode, last.token,
                          call_positional(last.action, last.token))
    /\ UNCHANGED << parser_vars, module_vars >>

CallKeyword ==
    /\ last.op = "token" /\ last.mode = "keyword"
    /\ last' = CallRecord("call_keyword", last.action, last.mode, last.token,
                          call_keyword(last.action, last.token))
    /\ UNCHANGED << parser_vars, module_vars >>

NextAction == CallPositional \/ CallKeyword

SpecAction == InitAction /\ [][NextAction]_vars

-----------------------------------------------------------------------------
(* The specification of resolve_type: one call, on any node of the type    *)
(* descriptions, taken one activation step at a time.                      *)

\* the type descriptions a call is made on: every node but the objects
\* that occur only as arguments
TypeMenu == DOMAIN TypeNodes \ {"...", "'x'"}

InitResolve == Constructed /\ Imported /\ last = [op |-> "import", outcome |-> "return"]

ResolveType ==
    /\ resolving.status = "idle"
    /\ \E tp \in TypeMenu : resolving' = Start(tp)
    /\ UNCHANGED << parser_vars, last, ACTIONS_table, made >>

Enter ==
    /\ resolving.status = "running" /\ Top(resolving).phase = "enter"
    /\ resolving' = resolve_step(resolving)
    /\ UNCHANGED << parser_vars, last, ACTIONS_table, made >>

Deliver ==
    /\ resolving.status = "running" /\ Top(resolving).phase = "done"
    /\ Len(resolving.frames) > 1
    /\ resolving' = resolve_step(resolving)
    /\ UNCHANGED << parser_vars, last, ACTIONS_table, made >>

Return ==
    /\ resolving.status = "running" /\ Top(resolving).phase = "done"
    /\ Len(resolving.frames) = 1
    /\ resolving' = resolve_step(resolving)
    /\ last' = [op |-> "resolve_type",
                outcome |-> IF Top(resolving).val = RaisedTypeError
                            THEN "TypeError" ELSE "return"]
    /\ UNCHANGED << parser_vars, ACTIONS_table, made >>

NextResolve == ResolveType \/ Enter \/ Deliver \/ Return

SpecResolve == InitResolve /\ [][NextResolve]_vars /\ WF_vars(NextResolve)

-----------------------------------------------------------------------------
(* The specification of auto: the module is imported, and auto is called   *)
(* on type descriptions one after the other.                               *)

\* the number of calls of auto
MaxAuto == 2

AutoCalls == IF last.op = "auto" THEN last.n ELSE 0

Auto ==
    \E tp \in TypeMenu :
        /\ AutoCalls < MaxAuto
        /\ auto(AutoCalls + 1, tp, resolve_type(tp))
        /\ UNCHANGED << parser_vars, resolving >>

NextAuto == Auto

SpecAuto == InitResolve /\ [][NextAuto]_vars

-----------------------------------------------------------------------------
(* sugar/_action.py: ext_isinstance, on Python values and on types whose   *)
(* unions keep the order of their __args__.  The answer is "True",         *)
(* "False", or "TypeError" when the call raises.                           *)

\* isinstance(obj, cls) for the classes of the model
IsInstanceOf(obj, n) ==
    \/ obj.t = n
    \/ n = "int" /\ obj.t = "bool"
    \/ n = "Sequence" /\ obj.t \in {"list", "tuple", "str"}
    \/ n = "Iterable" /\ obj.t \in {"list", "tuple", "set", "dict", "str"}

\* the elements of an iterable: the items of a dict are (key, value) pairs,
\* the elements of a str its characters
ElementsOf(obj) ==
    IF obj.t = "str" THEN [i \in 1..Len(obj.v) |-> PyStr(<<obj.v[i]>>)] ELSE obj.v

\* any(...) over answers computed in order: the first that is not False
AnyOf(answers) ==
    IF \A i \in 1..Len(answers) : answers[i] = "False" THEN "False"
    ELSE answers[CHOOSE i \in 1..Len(answers) :
                    /\ answers[i] # "False"
                    /\ \A j \in 1..(i - 1) : answers[j] = "False"]

\* all(...) over answers computed in order: the first that is not True
AllOf(answers) ==
    IF \A i \in 1..Len(answers) : answers[i] = "True" THEN "True"
    ELSE answers[CHOOSE i \in 1..Len(answers) :
                    /\ answers[i] # "True"
                    /\ \A j \in 1..(i - 1) : answers[j] = "True"]

\* k and v: v is evaluated only when k is True
AndThen(k, v) == IF k = "True" THEN v ELSE k

RECURSIVE ext_isinstance(_, _)
ext_isinstance(obj, tp) ==
    LET elements == ElementsOf(obj)
        n_args == Len(tp.a)
        n_obj == Len(elements)
    IN  IF tp.k = "Any" THEN "True"
        ELSE IF tp.k = "alias" THEN ext_isinstance(obj, AsFound(TypeNodes[tp.n].a[1]))
        ELSE IF tp.k = "class"
        THEN IF tp.n \in ClassNames
             THEN (IF IsInstanceOf(obj, tp.n) THEN "True" ELSE "False")
             ELSE "TypeError"
        ELSE IF tp.k = "union"
        THEN AnyOf([i \in 1..n_args |-> ext_isinstance(obj, tp.a[i])])
        ELSE IF tp.k # "generic" \/ tp.n \notin ClassNames THEN "TypeError"
        ELSE IF ~IsInstanceOf(obj, tp.n) THEN "False"
        ELSE IF obj.t = "tuple"
        THEN IF n_args = 2 /\ tp.a[2].k = "Ellipsis"
             THEN AllOf([i \in 1..n_obj |-> ext_isinstance(elements[i], tp.a[1])])
             ELSE IF n_args # n_obj THEN "TypeError"
             ELSE AllOf([i \in 1..n_obj |-> ext_isinstance(elements[i], tp.a[i])])
        ELSE IF obj.t = "dict"
        THEN IF n_args = 0 THEN "True"
             ELSE IF n_args # 2 THEN "TypeError"
             ELSE AllOf([i \in 1..n_obj |->
                        AndThen(ext_isinstance(elements[i].v[1], tp.a[1]),
                                ext_isinstance(elements[i].v[2], tp.a[2]))])
        ELSE IF obj.t \in {"list", "set", "str"}
        THEN IF n_args = 0 THEN "True"
             ELSE IF n_args # 1 THEN "TypeError"
             ELSE AllOf([i \in 1..n_obj |-> ext_isinstance(elements[i], tp.a[1])])
        ELSE "TypeError"

-----------------------------------------------------------------------------
(* The specification of ext_isinstance: calls on the objects and the types *)
(* drawn below.                                                            *)

\* the length of the longest tuple object drawn
MaxTuple == 3

Generic(n, a) == Type("generic", n, a)
Union(a) == Type("union", "", a)
Ellipsis == Type("Ellipsis", "...", << >>)

\* the objects: scalars, tuples of 0..MaxTuple ints, a tuple of strs, lists,
\* nested lists, a set and dicts
InstanceObjects ==
    {PyInt(1), PyStr(<<"a">>), PyNone, PyBool(TRUE)}
    \cup {PyTuple([i \in 1..n |-> PyInt(i)]) : n \in 0..MaxTuple}
    \cup {PyTuple(<<PyStr(<<"a">>), PyStr(<<"b">>)>>),
          PyTuple(<<PyInt(1), PyStr(<<"a">>)>>),
          PyList(<< >>), PyList(<<PyInt(1), PyInt(2)>>),
          PyList(<<PyInt(1), PyStr(<<"a">>)>>),
          PyList(<<PyList(<<PyInt(1)>>), PyList(<<PyStr(<<"a">>)>>)>>),
          PyList(<<PyList(<<PyInt(1), PyStr(<<"a">>)>>)>>),
          PySet(<<PyInt(1)>>),
          PyDict(<< >>),
          PyDict(<<PyTuple(<<PyStr(<<"a">>), PyInt(1)>>)>>)}

\* the types: classes, generics, unions in both orders of their members,
\* an alias
InstanceTypes ==
    {AnyType, Class("int"), Class("str"), Class("list"), NoneType,
     Type("alias", "X", << >>),
     Generic("list", <<Class("int")>>),
     Generic("list", <<Class("int"), Class("str")>>),
     Generic("list", <<Union(<<Class("int"), Class("str")>>)>>),
     Generic("list", <<Union(<<Generic("list", <<Class("int")>>),
                               Generic("list", <<Class("str")>>)>>)>>),
     Generic("Sequence", <<Class("int")>>),
     Generic("set", <<Class("int")>>),
     Generic("dict", <<Class("str"), Class("int")>>),
     Generic("tuple", <<Class("int"), Ellipsis>>),
     Generic("tuple", <<Class("int"), Class("int")>>),
     Generic("tuple", << >>),
     Union(<<Class("int"), NoneType>>),
     Union(<<Class("int"), Class("str")>>),
     Union(<<Generic("tuple", <<Class("int"), Class("int")>>),
             Generic("tuple", <<Class("int"), Ellipsis>>)>>),
     Union(<<Generic("tuple", <<Class("int"), Ellipsis>>),
             Generic("tuple", <<Class("int"), Class("int")>>)>>),
     Union(<<Generic("tuple", <<Class("int"), Class("int")>>), Class("list")>>),
     Union(<<Generic("list", <<Class("int"), Class("str")>>), Class("list")>>)}

ExtIsinstance ==
    \E obj \in InstanceObjects, tp \in InstanceTypes :
        /\ last' = [op |-> "ext_isinstance", outcome |-> "return", obj |-> obj,
                    tp |-> tp, result |-> ext_isinstance(obj, tp)]
        /\ UNCHANGED << parser_vars, module_vars >>

NextInstance == ExtIsinstance

SpecInstance == InitResolve /\ [][NextInstance]_vars

-----------------------------------------------------------------------------
(* sugar/_eval.py: convert, the two-stack loop, on syntax trees of         *)
(* Constant, Name, Tuple, List, Set and Dict nodes.  A node of any other   *)
(* class is held as the kind "Other" and taken by the last branch of the   *)
(* loop.                                                                   *)

AstNode(k, value, elts, keys, values) ==
    [k |-> k, value |-> value, elts |-> elts, keys |-> keys, values |-> values]
Constant(value) == AstNode("Constant", value, << >>, << >>, << >>)
Name(id) == AstNode("Name", PyStr(id), << >>, << >>, << >>)
TupleNode(elts) == AstNode("Tuple", PyNone, elts, << >>, << >>)
ListNode(elts) == AstNode("List", PyNone, elts, << >>, << >>)
SetNode(elts) == AstNode("Set", PyNone, elts, << >>, << >>)
DictNode(keys, values) == AstNode("Dict", PyNone, << >>, keys, values)
OtherNode == AstNode("Other", PyNone, << >>, << >>, << >>)

\* hash(x) for the values convert builds: a tuple is hashable when its
\* elements are
RECURSIVE DeepHashable(_)
DeepHashable(x) ==
    /\ x.t \notin {"list", "set", "dict"}
    /\ x.t = "tuple" => \A i \in 1..Len(x.v) : DeepHashable(x.v[i])

\* dict(zip(keys, values)): one item per distinct key, at the place of its
\* first occurrence, with the value of its last; TypeError on a key that
\* is not hashable
DictOf(ks, vs) ==
    LET distinct == Dedup(ks)
        LastAt(key) == CHOOSE i \in 1..Len(ks) :
                           ks[i] = key /\ \A j \in (i + 1)..Len(ks) : ks[j] # key
    IN  IF \E i \in 1..Len(ks) : ~DeepHashable(ks[i]) THEN TypeError
        ELSE PyDict([i \in 1..Len(distinct) |->
                        PyTuple(<<distinct[i], vs[LastAt(distinct[i])]>>)])

\* {x, ...}: TypeError on an element that is not hashable
SetOf(xs) ==
    IF \E i \in 1..Len(xs) : ~DeepHashable(xs[i]) THEN TypeError ELSE PySet(xs)

Entry(node, not_visited) == [node |-> node, not_visited |-> not_visited]

\* node_stack after (node, False) and then every node of nodes is appended
Pushed(node_stack, node, nodes) ==
    Append(node_stack, Entry(node, FALSE))
        \o [i \in 1..Len(nodes) |-> Entry(nodes[i], TRUE)]

\* the values popped in stack order, kept in the order of the value stack
PopValues_bottom_up(value_stack, n) ==
    SubSeq(value_stack, Len(value_stack) - n + 1, Len(value_stack))

\* [value_stack.pop() for _ in range(n)]: the top of the stack first
PopValues(value_stack, n) ==
    [i \in 1..n |-> value_stack[Len(value_stack) - i + 1]]

\* value_stack without its n topmost values
Below(value_stack, n) == SubSeq(value_stack, 1, Len(value_stack) - n)

ConvertEnd(outcome, node_stack, value_stack) ==
    [outcome |-> outcome, node_stack |-> node_stack, value_stack |-> value_stack]

RECURSIVE convert_loop(_, _)
\* the while loop of convert: the stacks when it ends, and how it ends
\* ("return": the loop ran out of nodes; "ValueError": break, a malformed
\* node; "TypeError": raised while a set or a dict is built)
convert_loop(node_stack, value_stack) ==
    IF node_stack = << >> THEN ConvertEnd("return", node_stack, value_stack)
    ELSE
    LET top == node_stack[Len(node_stack)]
        node == top.node
        rest == SubSeq(node_stack, 1, Len(node_stack) - 1)
        n == Len(node.elts)
        built == CASE node.k = "Tuple" -> PyTuple(PopValues(value_stack, n))
                   [] node.k = "List" -> PyList(PopValues(value_stack, n))
                   [] node.k = "Set" -> SetOf(PopValues(value_stack, n))
                   [] node.k = "Dict" ->
                        DictOf(PopValues(value_stack, Len(node.keys)),
                               PopValues(Below(value_stack, Len(node.keys)),
                                         Len(node.values)))
        used == IF node.k = "Dict" THEN Len(node.keys) + Len(node.values) ELSE n
    IN  IF node.k \in {"Constant", "Name"}
        THEN convert_loop(rest, Append(value_stack, node.value))
        ELSE IF node.k \in {"Tuple", "List", "Set"} /\ top.not_visited
        THEN convert_loop(Pushed(rest, node, node.elts), value_stack)
        ELSE IF node.k = "Dict" /\ top.not_visited
        THEN IF Len(node.keys) # Len(node.values)
             THEN ConvertEnd("ValueError", Append(rest, Entry(node, FALSE)), value_stack)
             ELSE convert_loop(Pushed(rest, node, node.keys \o node.values), value_stack)
        ELSE IF node.k \in {"Tuple", "List", "Set", "Dict"}
        THEN IF IsRaise(built) THEN ConvertEnd("TypeError", rest, Below(value_stack, used))
             ELSE convert_loop(rest, Append(Below(value_stack, used), built))
        ELSE ConvertEnd("ValueError", rest, value_stack)

\* convert(node): the end of the loop, and the value returned
convert(node) ==
    LET end == convert_loop(<<Entry(node, TRUE)>>, << >>)
    IN  [outcome |-> end.outcome, node_stack |-> end.node_stack,
         value_stack |-> end.value_stack,
         result |-> IF end.outcome = "return"
                    THEN end.value_stack[Len(end.value_stack)] ELSE MISSING]

-----------------------------------------------------------------------------
(* The specification of convert: one call on a syntax tree.                *)

\* the most elements of a display, and the most items of a dict display
MaxWidth == 2

Leaves == {Constant(PyInt(1)), Name(<<"a">>)}

\* the nodes the displays are made of: the leaves and nested displays
Parts ==
    Leaves \cup
    {TupleNode(<< >>),
     TupleNode(<<Constant(PyInt(1)), Name(<<"a">>)>>),
     ListNode(<<Name(<<"a">>), Constant(PyInt(1))>>),
     ListNode(<<TupleNode(<<Constant(PyInt(1)), Name(<<"a">>)>>),
                DictNode(<<Name(<<"a">>)>>, <<ListNode(<< >>)>>)>>),
     DictNode(<<Constant(PyInt(1)), Name(<<"a">>)>>,
              <<Name(<<"a">>), Constant(PyInt(1))>>)}

\* the syntax trees convert is called on
Trees ==
    Parts
    \cup {TupleNode(elts) : elts \in SeqUpTo(Parts, MaxWidth)}
    \cup {ListNode(elts) : elts \in SeqUpTo(Parts, MaxWidth)}
    \cup UNION {{DictNode(keys, values) :
                    keys \in [1..n -> Parts], values \in [1..n -> Parts]} :
                n \in 0..MaxWidth}
    \cup {SetNode(<<Constant(PyInt(1)), ListNode(<< >>)>>),
          ListNode(<<OtherNode>>)}

Convert ==
    /\ last.op # "convert"
    /\ \E node \in Trees :
          LET r == convert(node)
          IN  last' = [op |-> "convert", outcome |-> r.outcome, node |-> node,
                       node_stack |-> r.node_stack, value_stack |-> r.value_stack,
                       result |-> r.result]
    /\ UNCHANGED << parser_vars, module_vars >>

NextConvert == Convert

SpecConvert == InitResolve /\ [][NextConvert]_vars

-----------------------------------------------------------------------------
(* The specification of the word converters bool_ and none: calls on       *)
(* words in every mix of upper and lower case.                             *)

\* the words, in lower case: the vocabularies, and words of none of them
VocabularyWords ==
    TRUE_VALS \cup FALSE_VALS \cup NONE_VALS
    \cup {<< >>, <<"n","u","l","l">>, <<"n","i","l">>, <<"1">>, <<"n","o">>}

UpperOf(c) == IF \E C \in Upper : LowerOf(C) = c
              THEN CHOOSE C \in Upper : LowerOf(C) = c ELSE c

\* the word written in every mix of cases
CaseVariants(w) ==
    {[i \in 1..Len(w) |-> IF i \in up THEN UpperOf(w[i]) ELSE w[i]] :
        up \in SUBSET (1..Len(w))}

WordInputs == UNION {CaseVariants(w) : w \in VocabularyWords}

CallNone ==
    \E x \in WordInputs :
        /\ last' = [op |-> "none", outcome |-> IF IsRaise(none(x)) THEN none(x).t ELSE "return",
                    x |-> x, result |-> none(x)]
        /\ UNCHANGED << parser_vars, module_vars >>

CallBool ==
    \E x \in WordInputs :
        /\ last' = [op |-> "bool_", outcome |-> IF IsRaise(bool_(x)) THEN bool_(x).t ELSE "return",
                    x |-> x, result |-> bool_(x)]
        /\ UNCHANGED << parser_vars, module_vars >>

NextWord == CallNone \/ CallBool

SpecWord == InitResolve /\ [][NextWord]_vars

-----------------------------------------------------------------------------
(* Properties of the binding resolver.  They are stated on the record of   *)
(* the bind (last) and on the tables of the parser, from the input of the  *)
(* bind: its positional values and its named groups.                       *)

\* a bind has been made
Parsed == last.op = "parse_vals"

\* the flag names of the input
FlagNames == {last.named_vals[i][1] : i \in 1..Len(last.named_vals)}

\* the name matches a registered name
IsRegistered(name) == name \in DOMAIN name_to_dest

\* the name is one of a magic destination
IsMagicName(name) ==
    IsRegistered(name) /\ dest_to_group[name_to_dest[name]] = MAGIC

\* the name resolves to no destination that takes a flag: it matches no
\* registered name, or it is a name of a variadic spec
IsUnknownName(name) ==
    IsRegistered(name) =>
        dest_to_group[name_to_dest[name]] \in {VAR_POSITIONAL, VAR_KEYWORD}

\* the key a name has among the tokens: its destination, or the name itself
KeyOf(name) == IF IsRegistered(name) THEN name_to_dest[name] ELSE name

\* a magic flag is present in the input
MagicPresent == \E n \in FlagNames : IsMagicName(n)

\* the destination dest of a positional-only, positional-or-keyword or
\* keyword-only spec is supplied by name, under any of its alias names
SuppliedByName(dest) ==
    \E n \in FlagNames : IsRegistered(n) /\ name_to_dest[n] = dest

\* positional-or-keyword spec k is covered by a positional value
CoveredByPosition(k) == Len(pos_only_specs) + k <= Len(last.vals)

\* the occurrences, in input order, of the names with key dest; unknown
\* tells the unknown names from the names of the declared groups
OccurrencesOf(dest, unknown) ==
    SelectSeq(last.named_vals, LAMBDA nv :
        KeyOf(nv[1]) = dest /\ ~IsMagicName(nv[1]) /\ (IsUnknownName(nv[1]) <=> unknown))

\* the token the occurrences of a destination merge into
MergedToken(dest, unknown) ==
    LET occ == OccurrencesOf(dest, unknown)
    IN  KeywordToken(dest, Concat([i \in 1..Len(occ) |-> occ[i][2]]), Len(occ))

\* the keys of the entries of a dict
KeySet(d) == {d[i].dest : i \in 1..Len(d)}

\* the validation categories and when the input violates each
CategoryOrder ==
    << "missing positional-only", "conflicting positional-only",
       "missing positional or keyword", "conflicting positional or keyword",
       "too many positional", "missing keyword", "unknown keyword" >>

ViolatesCategory(c) ==
    CASE c = "missing positional-only" ->
            Len(last.vals) < Len(pos_only_specs)
      [] c = "conflicting positional-only" ->
            \E k \in 1..Len(pos_only_specs) : SuppliedByName(pos_only_specs[k].dest)
      [] c = "missing positional or keyword" ->
            \E k \in 1..Len(pos_or_kw_specs) :
                /\ ~CoveredByPosition(k)
                /\ ~SuppliedByName(pos_or_kw_specs[k].dest)
                /\ pos_or_kw_specs[k].default = MISSING
      [] c = "conflicting positional or keyword" ->
            \E k \in 1..Len(pos_or_kw_specs) :
                CoveredByPosition(k) /\ SuppliedByName(pos_or_kw_specs[k].dest)
      [] c = "too many positional" ->
            /\ var_pos_spec = << >>
            /\ Len(last.vals) > Len(pos_only_specs) + Len(pos_or_kw_specs)
      [] c = "missing keyword" ->
            \E k \in 1..Len(kw_only_specs) :
                /\ ~SuppliedByName(kw_only_specs[k].dest)
                /\ kw_only_specs[k].default = MISSING
      [] c = "unknown keyword" ->
            var_kw_spec = << >> /\ \E n \in FlagNames : IsUnknownName(n)

Violated == SelectSeq(CategoryOrder, ViolatesCategory)

\* the categories of the notes of the bind, in order
NoteCategories == [i \in 1..Len(last.notes) |-> last.notes[i].category]

\* the note of a category, when the bind carries one
HasNote(c) == \E i \in 1..Len(last.notes) : last.notes[i].category = c

-----------------------------------------------------------------------------
\* C1: whenever parse_vals succeeds, args holds one value per positional-only
\* spec, then one per positional-or-keyword spec, then (only with a
\* variadic-positional spec) the conversion of each remaining positional
\* value in input order; and the keys of kwargs are exactly the keyword-only
\* destinations plus (only with a variadic-keyword spec) the unknown flag
\* names.  The code stores the token of a flag that names a variadic spec
\* under the destination of that spec, which need not be a name of the input.
C1_ArgsAndKwargsAsClaimed ==
    (Parsed /\ last.outcome = "return") =>
        LET n_pos_only == Len(pos_only_specs)
            n_pos == Len(pos_only_specs) + Len(pos_or_kw_specs)
            n_vals == Len(last.vals)
            n_rest == IF var_pos_spec # << >> /\ n_vals > n_pos THEN n_vals - n_pos ELSE 0
        IN  /\ Len(last.args) = n_pos + n_rest
            /\ \A k \in 1..n_pos_only :
                  last.args[k] = call_positional(pos_only_specs[k].action,
                                    PositionalToken(pos_only_specs[k].dest, last.vals[k]))
            /\ \A k \in 1..n_rest :
                  last.args[n_pos + k] = call_positional(var_pos_spec[1].action,
                                    PositionalToken(var_pos_spec[1].dest, last.vals[n_pos + k]))
            /\ Len(last.kwargs) = Cardinality(KeySet(last.kwargs))
            /\ KeySet(last.kwargs) =
                  {kw_only_specs[k].dest : k \in 1..Len(kw_only_specs)}
                  \cup (IF var_kw_spec # << >>
                        THEN {n \in FlagNames : IsUnknownName(n)} ELSE {})

-----------------------------------------------------------------------------
\* C3: when the input of parse_vals, with no magic flag present, violates
\* validation categories, one SugarError is raised, and its notes are one
\* note for each violated category and none for any other, in the fixed
\* order of the categories.
C3_OneNotePerViolatedCategory ==
    (Parsed /\ ~MagicPresent /\ Violated # << >>) =>
        /\ last.outcome = "SugarError"
        /\ last.error = SugarError(<<"missing or conflicting arguments">>)
        /\ NoteCategories = Violated

\* several categories are violated at once, the first and the last among them
C3_Witness ==
    /\ Parsed /\ ~MagicPresent
    /\ Len(Violated) >= 3
    /\ ViolatesCategory("missing positional-only")
    /\ ViolatesCategory("unknown keyword")
    /\ last.outcome = "SugarError"

-----------------------------------------------------------------------------
\* the magic destinations matched by the flags of the input
MatchedMagic == {name_to_dest[n] : n \in {m \in FlagNames : IsMagicName(m)}}

\* C4: if a named group of the input resolves to a magic destination, the
\* Event of every matched magic destination is invoked exactly once and the
\* call ends with SugarExit status 0, with no validation error and no call
\* of the action of a non-magic spec, whatever else the input contains.
C4_MagicShortCircuits ==
    (Parsed /\ MagicPresent) =>
        /\ last.outcome = "SugarExit"
        /\ last.status = 0
        /\ last.notes = << >>
        /\ last.calls = << >>
        /\ Len(last.events) = Cardinality(MatchedMagic)
        /\ \A d \in MatchedMagic :
              \E m \in 1..Len(magic_specs) :
                  /\ magic_specs[m].dest = d
                  /\ Cardinality({i \in 1..Len(last.events) :
                                     last.events[i] = magic_specs[m].action.func}) = 1

\* the help flag is given twice, among an input that violates the validation
C4_Witness ==
    /\ Parsed /\ MagicPresent
    /\ Violated # << >>
    /\ Len(SelectSeq(last.named_vals, LAMBDA nv : IsMagicName(nv[1]))) = 2
    /\ last.outcome = "SugarExit"

-----------------------------------------------------------------------------
\* the value positional-or-keyword spec k is bound to by position, by name
\* or by default, in that order of priority
BoundByPriority(k) ==
    LET spec == pos_or_kw_specs[k]
    IN  IF CoveredByPosition(k)
        THEN call_positional(spec.action,
                PositionalToken(spec.dest, last.vals[Len(pos_only_specs) + k]))
        ELSE IF SuppliedByName(spec.dest)
        THEN call_keyword(spec.action, MergedToken(spec.dest, FALSE))
        ELSE spec.default

\* C5: on a successful bind, each positional-or-keyword spec at position i
\* (counted after the positional-only specs) gets the conversion of
\* positional value i when at least i+1 positional values were supplied,
\* otherwise the keyword conversion of the named token of its destination
\* (under any alias name) when one was supplied, otherwise its default.
C5_PositionThenNameThenDefault ==
    (Parsed /\ last.outcome = "return") =>
        \A k \in 1..Len(pos_or_kw_specs) :
            last.args[Len(pos_only_specs) + k] = BoundByPriority(k)

\* a successful bind with one positional-or-keyword spec bound by position
\* and another bound through an alias name that is not its destination
C5_Witness ==
    /\ Parsed /\ last.outcome = "return"
    /\ \E k \in 1..Len(pos_or_kw_specs) : CoveredByPosition(k)
    /\ \E k \in 1..Len(pos_or_kw_specs) :
          /\ ~CoveredByPosition(k)
          /\ pos_or_kw_specs[k].dest \notin FlagNames
          /\ SuppliedByName(pos_or_kw_specs[k].dest)
          /\ last.args[Len(pos_only_specs) + k] # pos_or_kw_specs[k].default

-----------------------------------------------------------------------------
\* C6: when fewer positional values are supplied than there are
\* positional-only specs and every positional-only spec not covered has a
\* default, the bind succeeds (here: when no magic flag is present and the
\* input violates no other validation category, it raises no validation
\* error) and each uncovered positional-only spec is bound to its default.
\* The code reports the uncovered specs as missing whatever their defaults.
C6_PositionalOnlyDefaultAsClaimed ==
    ( /\ Parsed /\ ~MagicPresent
      /\ Len(last.vals) < Len(pos_only_specs)
      /\ \A k \in (Len(last.vals) + 1)..Len(pos_only_specs) :
            pos_only_specs[k].default # MISSING
      /\ \A c \in Range(CategoryOrder) :
            c # "missing positional-only" => ~ViolatesCategory(c) )
    =>  /\ last.notes = << >>
        /\ last.outcome = "return" =>
              \A k \in (Len(last.vals) + 1)..Len(pos_only_specs) :
                  last.args[k] = pos_only_specs[k].default

-----------------------------------------------------------------------------
\* some positional-or-keyword destination is given by position and by name
ConflictingDests ==
    {pos_or_kw_specs[k].dest : k \in {j \in 1..Len(pos_or_kw_specs) :
        CoveredByPosition(j) /\ SuppliedByName(pos_or_kw_specs[j].dest)}}

\* the bind fails with a conflicting-arguments note naming every
\* destination given twice
FailsWithConflictNote ==
    /\ last.outcome = "SugarError"
    /\ \E i \in 1..Len(last.notes) :
          /\ last.notes[i].category = "conflicting positional or keyword"
          /\ ConflictingDests \subseteq Range(last.notes[i].dests)

\* C7 as stated: if a positional-or-keyword destination is covered by a
\* positional value and also supplied by name, parse_vals fails with a
\* SugarError carrying a conflicting-arguments note naming it.
C7_ConflictAlwaysReported ==
    (Parsed /\ ConflictingDests # {}) => FailsWithConflictNote

\* C7 as amended: when no magic flag is present, a positional-or-keyword
\* destination covered by a positional value and also supplied by name makes
\* parse_vals fail with a SugarError carrying a conflicting-arguments note
\* naming that destination; it never picks one of the two values.
C7_ConflictReportedUnlessMagic ==
    (Parsed /\ ~MagicPresent /\ ConflictingDests # {}) => FailsWithConflictNote

\* a destination is given by position and through an alias name
C7_Witness ==
    /\ Parsed /\ ~MagicPresent
    /\ \E k \in 1..Len(pos_or_kw_specs) :
          /\ CoveredByPosition(k)
          /\ SuppliedByName(pos_or_kw_specs[k].dest)
          /\ pos_or_kw_specs[k].dest \notin FlagNames
    /\ FailsWithConflictNote

-----------------------------------------------------------------------------
\* the flag names of the input that match no registered name
UnregisteredNames == {n \in FlagNames : ~IsRegistered(n)}

\* the bind fails with an unknown-keyword note naming every such flag
FailsWithUnknownNote ==
    /\ last.outcome = "SugarError"
    /\ \E i \in 1..Len(last.notes) :
          /\ last.notes[i].category = "unknown keyword"
          /\ UnregisteredNames \subseteq Range(last.notes[i].dests)

\* on success every such flag is converted by the action of the
\* variadic-keyword spec and stored under the name as typed
StoredUnderRawName ==
    last.outcome = "return" =>
        \A n \in UnregisteredNames :
            \E i \in 1..Len(last.kwargs) :
                /\ last.kwargs[i].dest = n
                /\ last.kwargs[i].value =
                      call_keyword(var_kw_spec[1].action, MergedToken(n, TRUE))

\* C8 as stated: flag names that match no registered name make parse_vals
\* fail with an unknown-keyword note exactly when the parser has no
\* variadic-keyword spec; when it has one, every unknown flag is converted
\* by its action and stored in kwargs under the raw name.
C8_UnknownFlagsAsClaimed ==
    (Parsed /\ UnregisteredNames # {}) =>
        /\ FailsWithUnknownNote <=> var_kw_spec = << >>
        /\ var_kw_spec # << >> => (~HasNote("unknown keyword") /\ StoredUnderRawName)

\* C8 as amended: when no magic flag is present, flag names that match no
\* registered name make parse_vals fail with an unknown-keyword note exactly
\* when the parser has no variadic-keyword spec; when it has one, a
\* successful bind stores the conversion of every unknown flag by that
\* spec's action in kwargs under the raw name.
C8_UnknownFlagsUnlessMagic ==
    (Parsed /\ ~MagicPresent /\ UnregisteredNames # {}) =>
        /\ FailsWithUnknownNote <=> var_kw_spec = << >>
        /\ var_kw_spec # << >> => (~HasNote("unknown keyword") /\ StoredUnderRawName)

\* an unknown flag given twice is stored by the variadic-keyword spec
C8_Witness ==
    /\ Parsed /\ ~MagicPresent /\ last.outcome = "return"
    /\ var_kw_spec # << >>
    /\ \E n \in UnregisteredNames :
          /\ Len(OccurrencesOf(n, TRUE)) = 2
          /\ n \in KeySet(last.kwargs)

-----------------------------------------------------------------------------
\* more positional values than positional specs, and no variadic-positional spec
ExcessPositional ==
    /\ var_pos_spec = << >>
    /\ Len(last.vals) > Len(pos_only_specs) + Len(pos_or_kw_specs)

\* C9 as stated: parse_vals fails with a 'too many positional arguments'
\* note exactly when the positional values outnumber the positional-only
\* plus positional-or-keyword specs and there is no variadic-positional spec.
C9_TooManyExactlyWhenExcess ==
    Parsed =>
        ((last.outcome = "SugarError" /\ HasNote("too many positional"))
            <=> ExcessPositional)

\* C9 as amended: when no magic flag is present, parse_vals fails with a
\* 'too many positional arguments' note exactly when the positional values
\* outnumber the positional-only plus positional-or-keyword specs and there
\* is no variadic-positional spec.
C9_TooManyUnlessMagic ==
    (Parsed /\ ~MagicPresent) =>
        ((last.outcome = "SugarError" /\ HasNote("too many positional"))
            <=> ExcessPositional)

\* one value too many for a parser that has positional specs
C9_Witness ==
    /\ Parsed /\ ~MagicPresent
    /\ Len(pos_only_specs) + Len(pos_or_kw_specs) > 0
    /\ var_pos_spec = << >>
    /\ Len(last.vals) = Len(pos_only_specs) + Len(pos_or_kw_specs) + 1
    /\ HasNote("too many positional")

-----------------------------------------------------------------------------
\* the bucket of the tokens a name goes to
BucketOf(name) ==
    IF IsUnknownName(name) THEN NoGroup ELSE dest_to_group[name_to_dest[name]]

\* the occurrences, in input order, of the names that resolve to
\* destination dest of bucket group
OccurrencesIn(group, dest) ==
    SelectSeq(last.named_vals, LAMBDA nv : BucketOf(nv[1]) = group /\ KeyOf(nv[1]) = dest)

\* C10: after the named groups are merged, the KeywordToken of each
\* destination has as value the concatenation, in input order, of the value
\* lists of all occurrences of any alias name of that destination, and its
\* count is the number of those occurrences (and every occurrence is in the
\* token of its destination).
C10_TokenAccumulates ==
    Parsed =>
        /\ \A g \in DOMAIN last.group_tokens :
              \A i \in 1..Len(last.group_tokens[g]) :
                  LET token == last.group_tokens[g][i]
                      occ == OccurrencesIn(g, token.dest)
                  IN  /\ token.count = Len(occ)
                      /\ token.count >= 1
                      /\ token.value = Concat([j \in 1..Len(occ) |-> occ[j][2]])
                      /\ \A j \in 1..Len(last.group_tokens[g]) :
                            last.group_tokens[g][j].dest = token.dest => j = i
        /\ \A n \in FlagNames :
              \E i \in 1..Len(last.group_tokens[BucketOf(n)]) :
                  last.group_tokens[BucketOf(n)][i].dest = KeyOf(n)

\* a destination given under two different alias names, with a value each time
C10_Witness ==
    /\ Parsed
    /\ \E g \in DOMAIN last.group_tokens :
          \E i \in 1..Len(last.group_tokens[g]) :
              /\ last.group_tokens[g][i].count = 2
              /\ Len(last.group_tokens[g][i].value) >= 1
              /\ Cardinality({n \in FlagNames :
                    BucketOf(n) = g /\ KeyOf(n) = last.group_tokens[g][i].dest}) = 2

-----------------------------------------------------------------------------
(* Properties of the token classifier, stated on the record of the call    *)
(* of separate_argv (last) under SpecArgv.                                 *)

\* token i of the argv is a flag token; a short cluster opens one group per
\* letter, a long flag one group
IsFlagToken(i) == parse_flag_and_value(last.argv[i]).e \in {LONG_FLAG, SHORT_FLAG}

GroupsOpened(i) ==
    IF parse_flag_and_value(last.argv[i]).e = SHORT_FLAG
    THEN Len(parse_flag_and_value(last.argv[i]).v) ELSE 1

\* the position of the first flag token at or after i, past the end when none
FlagFrom(i) ==
    IF \E j \in i..Len(last.argv) : IsFlagToken(j)
    THEN CHOOSE j \in i..Len(last.argv) :
            IsFlagToken(j) /\ \A m \in i..(j - 1) : ~IsFlagToken(m)
    ELSE Len(last.argv) + 1

RECURSIVE GroupsBefore(_)
\* the number of groups opened by the flag tokens before token i
GroupsBefore(i) ==
    IF i <= 1 THEN 0
    ELSE GroupsBefore(i - 1) + (IF IsFlagToken(i - 1) THEN GroupsOpened(i - 1) ELSE 0)

\* C2: for every argv with no invalid long flag, separate_argv returns as
\* positional values the tokens before the first flag token, in order, and
\* the named groups in argv order: a long flag opens one group, a short
\* cluster of k letters opens k groups of which the first k-1 are empty, and
\* the last group a flag token opens holds the value tokens between it and
\* the next flag token (or the end), in order; no value token is lost or
\* duplicated.
C2_ArgvSeparated ==
    ( /\ last.op = "separate_argv"
      /\ \A i \in 1..Len(last.argv) : parse_flag_and_value(last.argv[i]).e # "raise" )
    =>  /\ last.outcome = "return"
        /\ last.vals = SubSeq(last.argv, 1, FlagFrom(1) - 1)
        /\ Len(last.named_vals) = GroupsBefore(Len(last.argv) + 1)
        /\ \A i \in 1..Len(last.argv) :
              IsFlagToken(i) =>
                LET flag == parse_flag_and_value(last.argv[i])
                    first == GroupsBefore(i)
                    k == GroupsOpened(i)
                    values == SubSeq(last.argv, i + 1, FlagFrom(i + 1) - 1)
                IN  IF flag.e = LONG_FLAG
                    THEN last.named_vals[first + 1] = << flag.v, values >>
                    ELSE /\ \A j \in 1..(k - 1) :
                               last.named_vals[first + j] = << <<flag.v[j]>>, << >> >>
                         /\ last.named_vals[first + k] = << <<flag.v[k]>>, values >>
        /\ last.vals \o Concat([p \in 1..Len(last.named_vals) |-> last.named_vals[p][2]])
              = SelectSeq(last.argv, LAMBDA w : parse_flag_and_value(w).e = NON_FLAG)

\* a positional value, then a short cluster of two letters followed by a value
C2_Witness ==
    /\ last.op = "separate_argv" /\ last.outcome = "return"
    /\ Len(last.vals) = 1
    /\ \E i \in 1..Len(last.argv) :
          /\ IsFlagToken(i) /\ GroupsOpened(i) = 2
          /\ FlagFrom(i + 1) = i + 2
    /\ Len(last.named_vals) = 2

\* the tokens of argv that start with "--" and whose remainder, hyphens
\* turned into underscores, is not an identifier
InvalidLongFlagAt ==
    {i \in 1..Len(last.argv) :
        /\ Prefix(last.argv[i], 2) = <<"-", "-">>
        /\ ~isidentifier(Replace(Suffix(last.argv[i], 2), "-", "_"))}

\* C11: whenever some token of argv, at any position, starts with "--" and
\* its remainder with hyphens turned into underscores is not an identifier
\* (such as "--" or "--1"), separate_argv raises SugarError and returns no
\* positional values and no named groups.
C11_InvalidLongFlagRaises ==
    (last.op = "separate_argv" /\ InvalidLongFlagAt # {})
    =>  /\ last.outcome = "SugarError"
        /\ last.vals = << >>
        /\ last.named_vals = << >>

\* an invalid long flag that is not the first token and follows a valid flag
C11_Witness ==
    /\ last.op = "separate_argv" /\ last.outcome = "SugarError"
    /\ \E i \in InvalidLongFlagAt :
          i > 1 /\ \E j \in 1..(i - 1) : j \notin InvalidLongFlagAt
                                         /\ Prefix(last.argv[j], 1) = <<"-">>
                                         /\ Len(last.argv[j]) > 1

-----------------------------------------------------------------------------
(* Properties of run *)

\* the stage of run at which a SugarError is raised on the argument of the
\* last call, "" when none is
RaisingStage ==
    IF get_argv(last.argv).outcome = "SugarError" THEN "get_argv"
    ELSE IF separate_argv(get_argv(last.argv).argv).outcome = "SugarError"
    THEN "separate_argv"
    ELSE IF parse_separated(separate_argv(get_argv(last.argv).argv)).outcome = "SugarError"
    THEN "parse_vals"
    ELSE ""

\* a magic flag is matched on the argument of the last call
RunMagic ==
    /\ get_argv(last.argv).outcome = "return"
    /\ separate_argv(get_argv(last.argv).argv).outcome = "return"
    /\ parse_separated(separate_argv(get_argv(last.argv).argv)).outcome = "SugarExit"

\* C12: run never lets a SugarError escape: a SugarError raised while
\* splitting the command line, classifying its words or binding them is
\* written once through the formatter and replaced by SugarExit with status
\* 2; a matched magic flag ends run with SugarExit status 0 and nothing
\* written; run returns, with the args and kwargs of the bind, only when
\* neither happened.
C12_RunNeverLeaksSugarError ==
    last.op = "run" =>
        /\ last.outcome # "SugarError"
        /\ RaisingStage # "" =>
              /\ last.outcome = "SugarExit" /\ last.status = 2
              /\ Len(last.stderr) = 1
              /\ last.stage = RaisingStage
        /\ (RaisingStage = "" /\ RunMagic) =>
              /\ last.outcome = "SugarExit" /\ last.status = 0
              /\ last.stderr = << >>
        /\ last.outcome = "return" => (RaisingStage = "" /\ ~RunMagic)
        /\ last.outcome = "return" =>
              /\ last.parsed.outcome = "return"
              /\ last.parsed
                   = parse_separated(separate_argv(get_argv(last.argv).argv))

\* a command line given as one string whose bind fails in a conversion
C12_Witness ==
    /\ last.op = "run" /\ last.argv.t = "str"
    /\ last.outcome = "SugarExit" /\ last.status = 2
    /\ last.stage = "parse_vals"
    /\ last.parsed.calls # << >>
    /\ last.stderr[1].error = last.parsed.error

-----------------------------------------------------------------------------
(* Properties of registration *)

AddOps == {"add_positional_only", "add_positional_or_keyword", "add_var_positional",
           "add_keyword_only", "add_var_keyword"}

\* the specs of the parser, each with the group of the table holding it
SpecsByGroup ==
    [i \in 1..Len(magic_specs) |-> [group |-> MAGIC, spec |-> magic_specs[i]]]
    \o [i \in 1..Len(pos_only_specs) |->
            [group |-> POSITIONAL_ONLY, spec |-> pos_only_specs[i]]]
    \o [i \in 1..Len(pos_or_kw_specs) |->
            [group |-> POSITIONAL_OR_KEYWORD, spec |-> pos_or_kw_specs[i]]]
    \o [i \in 1..Len(var_pos_spec) |-> [group |-> VAR_POSITIONAL, spec |-> var_pos_spec[i]]]
    \o [i \in 1..Len(kw_only_specs) |-> [group |-> KEYWORD_ONLY, spec |-> kw_only_specs[i]]]
    \o [i \in 1..Len(var_kw_spec) |-> [group |-> VAR_KEYWORD, spec |-> var_kw_spec[i]]]

\* every name of a registered spec maps to the destination of that spec and
\* of no other, and every destination is held by exactly one spec, in the
\* table of the group that dest_to_group gives it
TablesConsistent ==
    /\ \A i \in 1..Len(SpecsByGroup) :
          LET e == SpecsByGroup[i]
          IN  /\ \A n \in 1..Len(e.spec.names) :
                    /\ e.spec.names[n] \in DOMAIN name_to_dest
                    /\ name_to_dest[e.spec.names[n]] = e.spec.dest
                    /\ \A j \in 1..Len(SpecsByGroup) :
                          (\E m \in 1..Len(SpecsByGroup[j].spec.names) :
                              SpecsByGroup[j].spec.names[m] = e.spec.names[n]) => j = i
              /\ e.spec.dest \in DOMAIN dest_to_group
              /\ dest_to_group[e.spec.dest] = e.group
    /\ \A d \in DOMAIN dest_to_group :
          Cardinality({i \in 1..Len(SpecsByGroup) : SpecsByGroup[i].spec.dest = d}) = 1

\* a registration call made with a name that is not an identifier, a name
\* already in the name table, or a destination already in the group table
\* raises ValueError and adds no spec
RejectedAtRegistration ==
    last'.op \in AddOps =>
        ( ( \/ \E n \in 1..Len(last'.names) : ~isidentifier(last'.names[n])
            \/ \E n \in 1..Len(last'.names) : last'.names[n] \in DOMAIN name_to_dest
            \/ last'.dest \in DOMAIN dest_to_group )
          => /\ last'.outcome = "ValueError"
             /\ UNCHANGED << magic_specs, pos_only_specs, pos_or_kw_specs, kw_only_specs,
                             var_pos_spec, var_kw_spec, dest_to_group >> )

-----------------------------------------------------------------------------
(* Properties of the actions, stated on the record of the call (last)      *)
(* under SpecAction.                                                       *)

Called == last.op \in {"call_positional", "call_keyword"}

\* C13 (as claimed): whenever a step of the conversion fails inside
\* call_positional or call_keyword of a Converter, Build or Record (the
\* whole-value function, an element converter or the collection
\* constructor), the exception that reaches the caller is a SugarError.
C13_OnlySugarErrorReachesCaller ==
    (Called /\ last.action.kind \in {"Converter", "Build", "Record"})
    => (last.outcome # "return" => last.outcome = "SugarError")

\* C14: call_keyword of a Converter raises SugarError without calling the
\* conversion function when the token holds any number of values other than
\* one, and with exactly one value returns the conversion of that value (or
\* raises the SugarError of that conversion).
C14_ConverterTakesExactlyOne ==
    (last.op = "call_keyword" /\ last.action.kind = "Converter") =>
        IF Len(last.token.value) # 1
        THEN /\ last.result
                  = SugarError(error_expected_n(last.token.dest, 1, Len(last.token.value)))
             /\ last.conversions = << >>
        ELSE /\ last.conversions
                  = << [func |-> last.action.func, value |-> last.token.value[1]] >>
             /\ IF IsRaise(CallFunc(last.action.func, last.token.value[1]))
                THEN last.outcome = "SugarError"
                ELSE last.result = CallFunc(last.action.func, last.token.value[1])

\* a Converter called with two values, the first of which it could convert
C14_Witness ==
    /\ last.op = "call_keyword" /\ last.action.kind = "Converter"
    /\ Len(last.token.value) = 2
    /\ ~IsRaise(CallFunc(last.action.func, last.token.value[1]))
    /\ last.outcome = "SugarError"

\* the conversions of the values of the last token by the element converter
ElementResults ==
    [i \in 1..Len(last.token.value) |-> CallFunc(last.action.elem, last.token.value[i])]

\* C15: call_keyword of a Build on a token of N values applies the element
\* converter to each value independently and returns the collection
\* constructor applied to the N results in order (the empty collection for
\* N = 0); if any value fails to convert, the call fails with SugarError.
C15_BuildConvertsEachValue ==
    (last.op = "call_keyword" /\ last.action.kind = "Build") =>
        IF \E i \in 1..Len(ElementResults) : IsRaise(ElementResults[i])
        THEN last.outcome = "SugarError"
        ELSE /\ last.result = CallColl(last.action.coll, ElementResults)
             /\ Len(last.conversions) = Len(last.token.value)
             /\ last.token.value = << >> => last.result.v = << >>

\* a Build of two values of which the first converts and the second fails
C15_Witness ==
    /\ last.op = "call_keyword" /\ last.action.kind = "Build"
    /\ Len(last.token.value) = 2
    /\ ~IsRaise(ElementResults[1]) /\ IsRaise(ElementResults[2])
    /\ last.outcome = "SugarError"

\* the conversions of the first min(n, k) values of the last token, each by
\* the converter at its position
RecordResults ==
    [i \in 1..Min(Len(last.action.elems), Len(last.token.value)) |->
        CallFunc(last.action.elems[i], last.token.value[i])]

\* C16: call_keyword of a Record of n converters on a token of k values
\* applies converter i to value i for i below min(n, k) and returns the
\* collection of those results; it raises nothing for the arity mismatch,
\* whether values are missing or in excess.
C16_RecordZipsToShorter ==
    (last.op = "call_keyword" /\ last.action.kind = "Record") =>
        IF \E i \in 1..Len(RecordResults) : IsRaise(RecordResults[i])
        THEN last.outcome = "SugarError"
        ELSE /\ last.outcome = "return"
             /\ last.result = CallColl(last.action.coll, RecordResults)
             /\ Len(last.result.v) = Min(Len(last.action.elems), Len(last.token.value))

\* a Record of one converter given two values, and returning one element
C16_Witness ==
    /\ last.op = "call_keyword" /\ last.action.kind = "Record"
    /\ Len(last.action.elems) = 1 /\ Len(last.token.value) = 2
    /\ last.outcome = "return" /\ Len(last.result.v) = 1

-----------------------------------------------------------------------------
(* Properties of resolve_type and auto *)

\* the last call of auto was made on a type that resolve_type resolved
AutoOnResolved == last.op = "auto" /\ last.resolved # RaisedTypeError

\* the last call of auto returned an action of this kind
ReturnsKind(kind) == last.outcome = "return" /\ last.instance.action.kind = kind

\* what the claim says of a tuple origin
TupleAsClaimed(r) ==
    IF r.k = "class"
    THEN ReturnsKind("Build") /\ last.instance.action.elem = "any_"
    ELSE IF Len(r.a) = 2 /\ r.a[2].k = "Ellipsis"
    THEN ReturnsKind("Build") /\ last.instance.action.elem = make_type(r.a[1])
    ELSE /\ ReturnsKind("Record")
         /\ last.instance.action.elems = [i \in 1..Len(r.a) |-> make_type(r.a[i])]

\* what the claim says of a collection origin that is no tuple and no mapping
CollectionAsClaimed(r) ==
    IF IsAbstractClass(r.n) /\ r.n \notin DOMAIN ABSTRACT_TO_CONCRETE
    THEN last.outcome = "TypeError"
    ELSE /\ ReturnsKind("Build")
         /\ last.instance.action.coll
              = IF IsAbstractClass(r.n) THEN ABSTRACT_TO_CONCRETE[r.n] ELSE r.n

NoNodeTwice ==
    \A i, j \in 1..Len(resolving.expanded) :
        resolving.expanded[i] = resolving.expanded[j] => i = j

\* C18: resolve_type terminates on every type description, those whose
\* aliases refer to themselves directly or through unions and generic
\* arguments included, and expands no node more than once in one call.
C18_ResolveTerminates ==
    /\ []NoNodeTwice
    /\ (resolving.status = "running") ~> (resolving.status = "done")

\* the call on the alias A = list[A] | int has returned, the alias left
\* unexpanded where it refers to itself
C18_Witness ==
    /\ resolving.status = "done" /\ resolving.tp = "A"
    /\ resolving.result.k = "union"
    /\ \E i \in 1..Len(resolving.result.a) :
          /\ resolving.result.a[i].k = "generic"
          /\ resolving.result.a[i].a = <<Type("alias", "A", << >>)>>

\* an entry of the action table stays as it is
EntriesKept ==
    \A k \in DOMAIN ACTIONS_table :
        k \in DOMAIN ACTIONS_table' /\ ACTIONS_table'[k] = ACTIONS_table[k]

\* a call of auto that returns, returns the entry of the table for the
\* resolved type; after a call that returned for an equal resolved type, it
\* returns the same instance
ReturnsTheEntry ==
    (last'.op = "auto" /\ last'.outcome = "return" /\ last' # last) =>
        /\ last'.resolved \in DOMAIN ACTIONS_table'
        /\ last'.instance = ACTIONS_table'[last'.resolved]
        /\ (last.op = "auto" /\ last.outcome = "return"
            /\ last.resolved = last'.resolved) => last'.instance = last.instance

\* C19: an entry of the action cache, once written, is never replaced or
\* removed, and two calls of auto whose types resolve to equal canonical
\* types return the identical Action instance.
C19_CacheKeepsInstances == [][EntriesKept /\ ReturnsTheEntry]_vars

\* a second call of auto answered by an entry that a call of auto wrote,
\* for a description written differently from the canonical type
C19_Witness ==
    /\ last.op = "auto" /\ last.n = 2 /\ last.hit
    /\ last.instance.id > Cardinality(DOMAIN ACTIONS_initial)
    /\ last.tp = "str | int"

-----------------------------------------------------------------------------
(* Properties of resolve_type: what it returns.                            *)

RECURSIVE Underlying(_, _)
\* the type a description stands for: every alias replaced by what its
\* definition stands for, None by the none type, an alias kept only where
\* it is met inside its own expansion (expanding: the aliases being
\* expanded at that place)
Underlying(id, expanding) ==
    LET d == TypeNodes[id]
        args == [i \in 1..Len(d.a) |-> Underlying(d.a[i], expanding)]
    IN  IF d.k = "None" THEN NoneType
        ELSE IF d.k = "alias"
        THEN IF id \in expanding THEN AsFound(id)
             ELSE Underlying(d.a[1], expanding \cup {id})
        ELSE IF d.k = "annotated" THEN Underlying(d.a[1], expanding)
        ELSE IF d.k = "bare" THEN Class(d.n)
        ELSE IF d.k \in {"generic", "union"}
        THEN IF \E i \in 1..Len(args) : args[i] = RaisedTypeError
             THEN RaisedTypeError ELSE Combine(d, args)
        ELSE AsFound(id)

\* C21 (as claimed): in the result of resolve_type every occurrence of a
\* type alias is replaced by its resolved underlying definition and every
\* occurrence of None by the none type, also when the same alias or None
\* occurs more than once among the arguments of one type; an alias is left
\* unexpanded only where it refers back to an alias being expanded.
\* The code returns the second occurrence of an object as it found it.
C21_EveryOccurrenceResolved ==
    resolving.status = "done" =>
        resolving.result = Underlying(resolving.tp, {})

-----------------------------------------------------------------------------
(* Properties of ext_isinstance.                                           *)

\* C22 (as claimed): ext_isinstance(obj, U) for a union U returns true
\* whenever obj is an instance of at least one member of U, whatever the
\* order of the members: the check of an earlier member never prevents a
\* later member from matching.
\* In the code the TypeError of an earlier member ends the call.
C22_UnionMatchesAnyMember ==
    (last.op = "ext_isinstance" /\ last.tp.k = "union"
     /\ \E i \in 1..Len(last.tp.a) : ext_isinstance(last.obj, last.tp.a[i]) = "True")
        => last.result = "True"

-----------------------------------------------------------------------------
(* Properties of convert.                                                  *)

RECURSIVE WellFormed(_)
\* a literal tree of tuples, lists and dicts over constants and names, the
\* keys of its dicts hashable
WellFormed(node) ==
    /\ node.k \in {"Constant", "Name", "Tuple", "List", "Dict"}
    /\ \A i \in 1..Len(node.elts) : WellFormed(node.elts[i])
    /\ Len(node.keys) = Len(node.values)
    /\ \A i \in 1..Len(node.keys) :
          WellFormed(node.keys[i]) /\ WellFormed(node.values[i])
          /\ node.keys[i].k \notin {"List", "Dict"}
          /\ \A j \in 1..Len(node.keys[i].elts) :
                node.keys[i].elts[j].k \in {"Constant", "Name"}

RECURSIVE Evaluated(_)
\* the structural evaluation of a well-formed tree: element i of a display
\* is the value of its i-th element, item i of a dict pairs its i-th key
\* with its i-th value
Evaluated(node) ==
    CASE node.k \in {"Constant", "Name"} -> node.value
      [] node.k = "Tuple" ->
            PyTuple([i \in 1..Len(node.elts) |-> Evaluated(node.elts[i])])
      [] node.k = "List" ->
            PyList([i \in 1..Len(node.elts) |-> Evaluated(node.elts[i])])
      [] node.k = "Dict" ->
            DictOf([i \in 1..Len(node.keys) |-> Evaluated(node.keys[i])],
                   [i \in 1..Len(node.values) |-> Evaluated(node.values[i])])

\* C23: for every well-formed literal tree of nested tuples, lists and
\* dicts over constants and names, the loop of convert ends with the node
\* stack empty and exactly one value on the value stack, and that value is
\* the structural evaluation of the tree.
C23_ConvertEvaluatesStructurally ==
    (last.op = "convert" /\ WellFormed(last.node)) =>
        /\ last.outcome = "return"
        /\ last.node_stack = << >>
        /\ Len(last.value_stack) = 1
        /\ last.result = Evaluated(last.node)

\* a list display of a tuple and a dict, nested three deep, has been
\* converted
C23_Witness ==
    /\ last.op = "convert" /\ WellFormed(last.node)
    /\ last.node.k = "Dict" /\ Len(last.node.keys) = 2
    /\ last.node.keys[1] # last.node.keys[2]
    /\ last.node.values[1].k = "List" /\ Len(last.node.values[1].elts) = 2
    /\ last.node.values[1].elts[2].k = "Dict"
    /\ last.outcome = "return"

-----------------------------------------------------------------------------
(* Properties of the binding resolver: validation, conversion, defaults.   *)

\* C24: in parse_vals the whole validation runs before any conversion: if
\* the input has at least one validation violation, no action of a
\* positional-only, positional-or-keyword, variadic-positional,
\* keyword-only or variadic-keyword spec is invoked in that call.
C24_ValidationBeforeConversion ==
    (Parsed /\ Violated # << >>) => last.calls = << >>

\* a bind with no magic flag, one violation, and a positional value that
\* covers a spec: the value is not converted
C24_Witness ==
    /\ Parsed /\ ~MagicPresent /\ Len(Violated) = 1
    /\ Len(last.vals) > 0 /\ Len(pos_only_specs) + Len(pos_or_kw_specs) > 0
    /\ last.outcome = "SugarError" /\ last.calls = << >>

\* the spec at place k of a table is given a value by the input: by
\* position (positional is the number of specs before it that take
\* positional values, -1 for a keyword-only spec) or by name
Supplied(specs, k, positional) ==
    \/ positional >= 0 /\ positional + k <= Len(last.vals)
    \/ SuppliedByName(specs[k].dest)

\* every spec of a table that the input gives no value has a declared default
DefaultsDeclared(specs, positional) ==
    \A k \in 1..Len(specs) :
        ~Supplied(specs, k, positional) => specs[k].default # MISSING

\* C25: whenever parse_vals returns, no element of args and no value of
\* kwargs is the MISSING sentinel: every positional-only,
\* positional-or-keyword and keyword-only destination is bound to a
\* converted input or to a default that was declared.
C25_NothingMissingOnReturn ==
    (Parsed /\ last.outcome = "return") =>
        /\ \A i \in 1..Len(last.args) : last.args[i] # MISSING
        /\ \A i \in 1..Len(last.kwargs) : last.kwargs[i].value # MISSING
        /\ Len(last.args) >= Len(pos_only_specs) + Len(pos_or_kw_specs)
        /\ \A k \in 1..Len(kw_only_specs) : kw_only_specs[k].dest \in KeySet(last.kwargs)
        /\ DefaultsDeclared(pos_only_specs, 0)
        /\ DefaultsDeclared(pos_or_kw_specs, Len(pos_only_specs))
        /\ DefaultsDeclared(kw_only_specs, -1)

\* a bind that returned with one destination bound to a converted input
\* and a positional-or-keyword spec left to its declared default
C25_Witness ==
    /\ Parsed /\ last.outcome = "return" /\ last.calls # << >>
    /\ \E k \in 1..Len(pos_or_kw_specs) :
          /\ ~Supplied(pos_or_kw_specs, k, Len(pos_only_specs))
          /\ last.args[Len(pos_only_specs) + k] = pos_or_kw_specs[k].default

-----------------------------------------------------------------------------
(* Properties of the registration: a call that raises.                     *)

\* a registration call that raises leaves every table of the parser as it was
FailedCallChangesNothing ==
    (last'.op \in AddOps /\ last'.outcome = "ValueError") => UNCHANGED parser_vars

\* every name of the name table maps to a destination that has a group
NamesHaveGroups ==
    \A n \in DOMAIN name_to_dest : name_to_dest[n] \in DOMAIN dest_to_group

\* C26 (as claimed): a registration call that raises ValueError leaves the
\* name-to-destination table, the destination-to-group table and the spec
\* tables unchanged, so that every registered name still maps to a
\* destination that has a group.
\* The code writes the names before it tests the destination.
C26_FailedRegistrationLeavesTables ==
    [][FailedCallChangesNothing]_vars /\ []NamesHaveGroups

-----------------------------------------------------------------------------
(* Properties of the binding resolver: the arguments of the caller.        *)

\* C27 (as claimed): parse_vals is re-entrant: a call leaves the caller's
\* positional list and the value lists of the named groups unchanged, also
\* when a flag name is repeated.
\* The code extends the list of the first occurrence of a repeated flag.
C27_CallerListsUnchanged ==
    Parsed => /\ last.vals_after = last.vals
              /\ last.named_vals_after = last.named_vals

\* the value parse_vals owes a keyword-only spec: the conversion of the
\* token of its destination, or its default
OwnValue(spec) ==
    LET tokens == last.group_tokens[KEYWORD_ONLY]
        j == IndexOf(tokens, spec.dest)
    IN  IF j = 0 THEN spec.default ELSE call_keyword(spec.action, tokens[j])

\* C28 (as claimed): on a successful bind by a parser that has a
\* variadic-keyword spec, the kwargs value of every keyword-only
\* destination is the conversion of that destination's own token or its
\* declared default, also when the destination was registered with alias
\* names that do not include the destination itself.
\* In the code a flag spelled as such a destination goes to the
\* variadic-keyword spec, whose value replaces the one of the destination.
C28_KeywordOnlyKeepsOwnValue ==
    (Parsed /\ last.outcome = "return" /\ var_kw_spec # << >>) =>
        \A k \in 1..Len(kw_only_specs) :
            \E i \in 1..Len(last.kwargs) :
                /\ last.kwargs[i].dest = kw_only_specs[k].dest
                /\ last.kwargs[i].value = OwnValue(kw_only_specs[k])

-----------------------------------------------------------------------------
(* Properties of stream.                                                   *)

\* the numbers of the lines read that are not empty and whose run returns
SucceedingLines ==
    SelectSeq([i \in 1..Len(last.lines) |-> i], LAMBDA i :
        /\ last.lines[i] # << >>
        /\ run([t |-> "str", v |-> last.lines[i]]).outcome = "return")

\* C29 (as claimed): stream, fed lines and then the end of the input,
\* yields in input order the result of run for exactly the non-empty lines
\* whose parse succeeds; a line that ends in a binding error or a magic
\* flag yields nothing and does not end the loop, empty lines are skipped,
\* and the generator finishes at the end of the input.
\* In the code a line whose conversion leaks a TypeError ends the generator.
C29_StreamYieldsSucceedingLines ==
    (last.op = "stream" /\ last.outcome # "KeyboardInterrupt") =>
        /\ last.outcome \in {"running", "return"}
        /\ Len(last.yielded) = Len(SucceedingLines)
        /\ \A j \in 1..Len(last.yielded) :
              /\ last.yielded[j].line = SucceedingLines[j]
              /\ last.yielded[j].result = run([t |-> "str", v |-> last.lines[SucceedingLines[j]]])

-----------------------------------------------------------------------------
(* Properties of the word converters.                                      *)

\* C30 (as claimed): the none converter returns None exactly for the
\* inputs whose lower-cased form is in NONE_VALS ('none'), and raises
\* ValueError for every other input, in particular for 'true' and 't'.
\* The code tests the input against TRUE_VALS.
C30_NoneAcceptsItsVocabulary ==
    last.op = "none" =>
        IF lower(last.x) \in NONE_VALS
        THEN last.outcome = "return" /\ last.result = PyNone
        ELSE last.outcome = "ValueError"

====
